---- MODULE Spec2Model ----
(***************************************************************************)
(* Model of tree-sitter-offload: the snapshot builder (full and            *)
(* incremental), the cross-tree cursor and the highlight lexer.            *)
(*                                                                         *)
(* All byte coordinates are in the doubled unit of the source (one UTF-16  *)
(* code unit = 2 bytes).  The single-grammar parsing engine is external;   *)
(* it is represented by a small deterministic grammar (words, blocks       *)
(* "<...>", stray ">" errors, blanks as padding) that yields the shapes    *)
(* the engine yields: a root that starts at the first token and ends at    *)
(* the end of the input, ordered non-overlapping children, gaps between    *)
(* siblings.                                                               *)
(***************************************************************************)
EXTENDS Integers, Sequences, FiniteSets, TLC

\* Longest document, in UTF-16 code units.
MaxLen == 4

Chars == {"a", "<", ">", " "}

Texts == UNION {[1..n -> Chars] : n \in 0..MaxLen}

None == [tag |-> "None"]

Min(a, b) == IF a < b THEN a ELSE b
Max(a, b) == IF a > b THEN a ELSE b

SubText(txt, from, to) == [i \in 1..(to - from) |-> txt[from + i]]

(***************************************************************************)
(* ts::Point, ts::Range                                                    *)
(***************************************************************************)
Point(r, c) == [row |-> r, column |-> c]

Range(sb, eb, sp, ep) ==
    [start_byte |-> sb, end_byte |-> eb, start_point |-> sp, end_point |-> ep]

ByteRange(s, e) == [start |-> s, end |-> e]

sub_point(point1, point2) ==
    IF point1.row = point2.row
    THEN Point(0, Max(point1.column - point2.column, 0))
    ELSE Point(Max(point1.row - point2.row, 0), point1.column)

(***************************************************************************)
(* The external parsing engine: trees are sequences of nodes in pre-order, *)
(* node 1 is the root, coordinates are local to the parsed slice.          *)
(***************************************************************************)
Node(k, s, e, p) == [kind |-> k, s |-> s, e |-> e, parent |-> p]

RECURSIVE MatchClose(_, _, _)
MatchClose(txt, i, d) ==
    IF i > Len(txt) THEN 0
    ELSE IF txt[i] = ">" THEN (IF d = 0 THEN i ELSE MatchClose(txt, i + 1, d - 1))
    ELSE IF txt[i] = "<" THEN MatchClose(txt, i + 1, d + 1)
    ELSE MatchClose(txt, i + 1, d)

RECURSIVE WordEnd(_, _)
WordEnd(txt, i) ==
    IF i < Len(txt) /\ txt[i + 1] = "a" THEN WordEnd(txt, i + 1) ELSE i

BlockNodes(txt, i, acc) ==
    LET m == MatchClose(txt, i + 1, 0)
        e == IF m = 0 THEN Len(txt) ELSE m
        rawEnd == IF m = 0 THEN Len(txt) ELSE m - 1
        b == Len(acc) + 1
        withBlock == Append(acc, Node("block", 2 * (i - 1), 2 * e, 1))
        withLt == Append(withBlock, Node("lt", 2 * (i - 1), 2 * i, b))
        withRaw == IF rawEnd > i
                   THEN Append(withLt, Node("raw", 2 * i, 2 * rawEnd, b))
                   ELSE withLt
    IN  IF m # 0 THEN Append(withRaw, Node("gt", 2 * (m - 1), 2 * m, b)) ELSE withRaw

BlockEnd(txt, i) ==
    LET m == MatchClose(txt, i + 1, 0) IN IF m = 0 THEN Len(txt) ELSE m

RECURSIVE ParseItems(_, _, _)
ParseItems(txt, i, acc) ==
    IF i > Len(txt) THEN acc
    ELSE IF txt[i] = " " THEN ParseItems(txt, i + 1, acc)
    ELSE IF txt[i] = "a"
         THEN ParseItems(txt, WordEnd(txt, i) + 1,
                         Append(acc, Node("word", 2 * (i - 1), 2 * WordEnd(txt, i), 1)))
    ELSE IF txt[i] = ">"
         THEN ParseItems(txt, i + 1, Append(acc, Node("err", 2 * (i - 1), 2 * i, 1)))
    ELSE ParseItems(txt, BlockEnd(txt, i) + 1, BlockNodes(txt, i, acc))

\* The tree the engine builds for a slice: the root starts at the first
\* token (leading blanks are padding) and ends at the end of the input.
ts_tree(txt) ==
    LET items == ParseItems(txt, 1, <<Node("doc", 0, 2 * Len(txt), 0)>>)
        first == IF Len(items) > 1 THEN items[2].s ELSE 2 * Len(txt)
    IN  [items EXCEPT ![1] = Node("doc", first, 2 * Len(txt), 0)]

\* ts::Parser::set_included_ranges rejects ranges that are not ascending.
RECURSIVE RangesAscending(_, _, _)
RangesAscending(ranges, i, prev) ==
    IF i > Len(ranges) THEN TRUE
    ELSE /\ ranges[i].start_byte >= prev
         /\ ranges[i].end_byte >= ranges[i].start_byte
         /\ RangesAscending(ranges, i + 1, ranges[i].end_byte)

(***************************************************************************)
(* The language registry                                                   *)
(***************************************************************************)
NoQuery == [tag |-> "None"]

NoOffset == [tag |-> "None"]

\* CaptureOffset::new(arg1 * 2, arg2 * 2) for offset!(capture, arg1, arg2)
CaptureOffset(arg1, arg2) ==
    [tag |-> "Some", start_offset |-> arg1 * 2, end_offset |-> arg2 * 2]

LanguageName(name) == [tag |-> "LanguageName", name |-> name]
LanguageMimetype(name) == [tag |-> "LanguageMimetype", name |-> name]

\* InjectionLanguage
NotSpecified == [tag |-> "NotSpecified"]
Static(unknown_language) == [tag |-> "Static", language |-> unknown_language]

\* Option<u32>::Some of a capture id.
SomeId(id) == [tag |-> "Some", id |-> id]

\* The source of an injection query: a pattern on a node of one kind with
\* the captures written on it, in order, the names set by
\* (#set! injection.language name), in order, and an optional
\* (#offset! @injection.content ..); more holds the sources of the
\* patterns that follow it in the same query.
QuerySource(kind, captures, settings, offset) ==
    [kind |-> kind, captures |-> captures, settings |-> settings, offset |-> offset,
     more |-> <<>>]

\* The source of a query of two patterns.
TwoPatterns(first, second) == [first EXCEPT !.more = <<second>>]

\* The patterns of a query source or of a compiled query, in order.
PatternsOf(query) == <<[query EXCEPT !.more = <<>>]>> \o query.more

\* ts::Query::capture_names: the engine keeps one entry per capture name,
\* in the order of first use.
RECURSIVE capture_names(_, _, _)
capture_names(uses, i, names) ==
    IF i > Len(uses) THEN names
    ELSE IF \E j \in 1..Len(names) : names[j] = uses[i]
    THEN capture_names(uses, i + 1, names)
    ELSE capture_names(uses, i + 1, Append(names, uses[i]))

\* The id of a capture name.
CaptureId(names, name) == (CHOOSE j \in 1..Len(names) : names[j] = name) - 1

InjectionCaptureNames == {"injection.content", "injection.language", "injection.mimetype"}

NoCaptureIds == [name \in InjectionCaptureNames |-> None]

\* The loop of InjectionQuery::new over the capture names.
RECURSIVE ScanCaptureNames(_, _, _)
ScanCaptureNames(names, idx, ids) ==
    IF idx > Len(names) THEN [tag |-> "Ok", ids |-> ids]
    ELSE IF names[idx] \in InjectionCaptureNames
    THEN IF ids[names[idx]] # None
         THEN [tag |-> "Err", error |-> "DuplicateCapture"]
         ELSE ScanCaptureNames(names, idx + 1, [ids EXCEPT ![names[idx]] = SomeId(idx - 1)])
    ELSE ScanCaptureNames(names, idx + 1, ids)

\* The settings loop without the conflict test: the last name stays.
RECURSIVE ScanSettings_last_stays(_, _, _)
ScanSettings_last_stays(settings, i, language) ==
    IF i > Len(settings) THEN [tag |-> "Ok", language |-> language]
    ELSE ScanSettings_last_stays(settings, i + 1, Static(LanguageName(settings[i])))

\* The loop over the pattern's property settings: injection.language.
RECURSIVE ScanSettings(_, _, _)
ScanSettings(settings, i, language) ==
    IF i > Len(settings) THEN [tag |-> "Ok", language |-> language]
    ELSE IF language # NotSpecified
    THEN [tag |-> "Err", error |-> "LanguageConflict"]
    ELSE ScanSettings(settings, i + 1, Static(LanguageName(settings[i])))

\* The capture uses of all the patterns of a source, in order.
RECURSIVE PatternCaptures(_, _)
PatternCaptures(patterns, i) ==
    IF i > Len(patterns) THEN <<>>
    ELSE patterns[i].captures \o PatternCaptures(patterns, i + 1)

SourceCaptures(source) == PatternCaptures(PatternsOf(source), 1)

\* The loop over the patterns: the first error of a settings loop.
RECURSIVE ScanPatterns(_, _)
ScanPatterns(patterns, i) ==
    IF i > Len(patterns) THEN [tag |-> "Ok"]
    ELSE IF ScanSettings(patterns[i].settings, 1, NotSpecified).tag = "Err"
    THEN ScanSettings(patterns[i].settings, 1, NotSpecified)
    ELSE ScanPatterns(patterns, i + 1)

\* One pattern of the compiled query: its node kind, the ids of the
\* captures on the node, its InjectionInfo (language, offsets) and the
\* capture ids of the whole query.
CompiledPattern(pattern, names, ids) ==
    [tag |-> "Some", kind |-> pattern.kind,
     captures |-> [k \in 1..Len(pattern.captures) |-> CaptureId(names, pattern.captures[k])],
     injection_content_capture_id |-> ids["injection.content"],
     injection_language_capture_id |-> ids["injection.language"],
     injection_mimetype_capture_id |-> ids["injection.mimetype"],
     language |-> ScanSettings(pattern.settings, 1, NotSpecified).language,
     offset |-> pattern.offset,
     more |-> <<>>]

\* The query InjectionQuery::new returns: its first pattern, and the
\* patterns that follow it in more.
CompiledQuery(source, names, ids) ==
    [CompiledPattern(source, names, ids) EXCEPT
        !.more = [j \in 1..Len(source.more) |-> CompiledPattern(source.more[j], names, ids)]]

\* InjectionQuery::new without the test for the required capture: the
\* content capture id is whatever the scan left.
InjectionQuery_new_content_optional(source) ==
    LET names == capture_names(SourceCaptures(source), 1, <<>>)
        scanned == ScanCaptureNames(names, 1, NoCaptureIds)
        info == ScanPatterns(PatternsOf(source), 1)
    IN  IF scanned.tag = "Err" THEN scanned
        ELSE IF info.tag = "Err" THEN info
        ELSE [tag |-> "Ok", query |-> CompiledQuery(source, names, scanned.ids)]

\* InjectionQuery::new
InjectionQuery_new(source) ==
    LET names == capture_names(SourceCaptures(source), 1, <<>>)
        scanned == ScanCaptureNames(names, 1, NoCaptureIds)
        info == ScanPatterns(PatternsOf(source), 1)
    IN  IF scanned.tag = "Err" THEN scanned
        ELSE IF scanned.ids["injection.content"] = None
        THEN [tag |-> "Err", error |-> "NoRequiredCaptures"]
        ELSE IF info.tag = "Err" THEN info
        ELSE [tag |-> "Ok", query |-> CompiledQuery(source, names, scanned.ids)]

\* The injection query of the source (kind) @injection.content
\* (#set! injection.language name) with an optional offset!.
InjectionQuery(kind, name, offset) ==
    InjectionQuery_new(QuerySource(kind, <<"injection.content">>, <<name>>, offset)).query

\* A highlight query: a sequence of patterns, pattern i capturing every
\* node of patterns[i].kind as capture patterns[i].capture, and the bit set
\* of the captures whose name does not start with "_".
HighlightsQuery(patterns, visible) ==
    [tag |-> "Some", patterns |-> patterns, visible |-> visible]

Pattern(kind, capture) == [kind |-> kind, capture |-> capture]

Language(id, name, abi_ok, injections_query, highlights_query) ==
    [id |-> id, name |-> name, abi_ok |-> abi_ok,
     injections_query |-> injections_query, highlights_query |-> highlights_query,
     indents_query |-> NoQuery]

\* A ranges query of one pattern: (kind) @main or, with_ends,
\* (kind (lt) @start (gt) @end) @main, with or without
\* (#set! range.inner).
RangesQuery(kind, with_ends, inner) ==
    [tag |-> "Some", kind |-> kind, main |-> "node", with_start |-> with_ends,
     with_end |-> with_ends, inner |-> inner]

\* A ranges query of one pattern on a block: @main on the block
\* ("node") or on its lt and its gt ("ends"), with or without @start on
\* its lt and @end on its gt.
RangesPattern(main, with_start, with_end, inner) ==
    [tag |-> "Some", kind |-> "block", main |-> main, with_start |-> with_start,
     with_end |-> with_end, inner |-> inner]

LanguageRegistry_language(reg, language_id) ==
    LET found == {i \in 1..Len(reg) : reg[i].id = language_id}
    IN  IF found = {} THEN None
        ELSE [tag |-> "Some", language |-> reg[CHOOSE i \in found : \A j \in found : i <= j]]

LanguageRegistry_language_by_name(reg, language_name) ==
    LET found == {i \in 1..Len(reg) : reg[i].name = language_name}
    IN  IF found = {} THEN None
        ELSE [tag |-> "Some", language |-> reg[CHOOSE i \in found : \A j \in found : i <= j]]

\* with_unknown_language that looks a mimetype up as a name.
with_unknown_language_any(reg, language) ==
    LanguageRegistry_language_by_name(reg, language.name)

with_unknown_language(reg, language) ==
    IF language.tag = "LanguageName"
    THEN LanguageRegistry_language_by_name(reg, language.name)
    ELSE None


(***************************************************************************)
(* The parse primitive as the builder calls it                             *)
(***************************************************************************)
\* parser.parse_utf16 on a slice with included ranges: the engine reads
\* only the text from the first to the last included range.
ts_parse(slice, included_ranges) ==
    IF included_ranges = <<>> THEN ts_tree(slice)
    ELSE LET from == included_ranges[1].start_byte \div 2
             to == Min(included_ranges[Len(included_ranges)].end_byte \div 2, Len(slice))
             shift == included_ranges[1].start_byte
             t == ts_tree(SubText(slice, from, Max(from, to)))
         IN  [i \in 1..Len(t) |-> Node(t[i].kind, t[i].s + shift, t[i].e + shift, t[i].parent)]

\* The closure handed to with_parser: set_language, set_included_ranges,
\* the slice of the text, parse_utf16.  "panic" is the slice index out of
\* range.  The tree does not depend on the reuse basis.
with_parser_parse(language, included_ranges, byte_range, txt, old_tree) ==
    IF ~language.abi_ok THEN None
    ELSE IF ~RangesAscending(included_ranges, 1, 0) THEN None
    ELSE IF \/ byte_range.start \div 2 > byte_range.end \div 2
            \/ byte_range.end \div 2 > Len(txt)
         THEN [tag |-> "panic"]
    ELSE [tag |-> "Some",
          tree |-> ts_parse(SubText(txt, byte_range.start \div 2, byte_range.end \div 2),
                            included_ranges)]

\* Tree::edit: positions behind the edit move by the length delta.
ts_tree_edit(tree, e) ==
    LET pos(p) == IF p >= e.old_end_byte THEN p + e.new_end_byte - e.old_end_byte
                  ELSE IF p > e.start_byte THEN e.new_end_byte
                  ELSE p
    IN  [i \in 1..Len(tree) |-> Node(tree[i].kind, pos(tree[i].s), pos(tree[i].e), tree[i].parent)]

\* Tree::changed_ranges: the ranges of the nodes of the new tree that the
\* edited old tree does not hold.
RECURSIVE ts_changed_ranges(_, _, _)
ts_changed_ranges(old_tree, new_tree, i) ==
    IF i > Len(new_tree) THEN <<>>
    ELSE LET n == new_tree[i]
             same == \E j \in 1..Len(old_tree) :
                        /\ old_tree[j].kind = n.kind
                        /\ old_tree[j].s = n.s
                        /\ old_tree[j].e = n.e
             rest == ts_changed_ranges(old_tree, new_tree, i + 1)
         IN  IF same \/ i = 1 THEN rest
             ELSE <<Range(n.s, n.e, Point(0, n.s), Point(0, n.e))>> \o rest

(***************************************************************************)
(* query.rs: CaptureOffset                                                 *)
(***************************************************************************)
apply_to_range(offset, range) ==
    Range(range.start_byte + offset.start_offset,
          range.end_byte + offset.start_offset,
          Point(range.start_point.row, range.start_point.column + offset.start_offset),
          Point(range.end_point.row, range.end_point.column + offset.end_offset))

(***************************************************************************)
(* injections.rs                                                           *)
(***************************************************************************)
\* Node::range of node i of a tree under root_node_with_offset.
NodeRange(tree, i, byte_offset, point_offset) ==
    Range(tree[i].s + byte_offset, tree[i].e + byte_offset,
          Point(point_offset.row, tree[i].s + point_offset.column),
          Point(point_offset.row, tree[i].e + point_offset.column))

InjectionMatch(id, language, enclosing, included_ranges, captured) ==
    [id |-> id, language |-> language, enclosing_byte_range |-> enclosing,
     included_ranges |-> included_ranges, combined |-> FALSE,
     include_children |-> FALSE, captured |-> captured]

\* The matches of the query inside the cursor's byte range, in tree order.
InjectionMatches(query, tree, byte_offset, cursor_range) ==
    SelectSeq([i \in 1..Len(tree) |-> i],
              LAMBDA i : /\ tree[i].kind = query.kind
                         /\ tree[i].e + byte_offset > cursor_range.start
                         /\ tree[i].s + byte_offset < cursor_range.end)

\* The merge that keeps the match it has for an enclosing range.
RECURSIVE MergeInjections_keeps_first(_, _, _)
MergeInjections_keeps_first(found, i, injections) ==
    IF i > Len(found) THEN injections
    ELSE LET m == found[i]
             same == {j \in 1..Len(injections) :
                         injections[j].enclosing_byte_range = m.enclosing_byte_range}
         IN  IF same # {}
             THEN MergeInjections_keeps_first(found, i + 1, injections)
             ELSE MergeInjections_keeps_first(found, i + 1, Append(injections, m))

RECURSIVE MergeInjections(_, _, _)
MergeInjections(found, i, injections) ==
    IF i > Len(found) THEN injections
    ELSE LET m == found[i]
             same == {j \in 1..Len(injections) :
                         injections[j].enclosing_byte_range = m.enclosing_byte_range}
         IN  IF same # {}
             THEN MergeInjections(found, i + 1,
                                  [injections EXCEPT ![CHOOSE j \in same : TRUE] = m])
             ELSE MergeInjections(found, i + 1, Append(injections, m))

\* String::from_utf16_lossy of a slice of the text.
RECURSIVE from_utf16_lossy(_)
from_utf16_lossy(units) ==
    IF units = <<>> THEN "" ELSE Head(units) \o from_utf16_lossy(Tail(units))

\* What the loop over the captures of one match gathers.
MatchState(query_ranges, query_language) ==
    [query_ranges |-> query_ranges, query_language |-> query_language]

\* The loop over query_match.captures for the match on one node, from
\* capture k on.
RECURSIVE MatchCaptures(_, _, _, _, _)
MatchCaptures(query, txt, node_range, k, st) ==
    IF k > Len(query.captures) THEN st
    ELSE LET index == SomeId(query.captures[k])
             range == IF /\ query.offset.tag = "Some"
                         /\ index = query.injection_content_capture_id
                      THEN apply_to_range(query.offset, node_range)
                      ELSE node_range
             named == from_utf16_lossy(SubText(txt, range.start_byte \div 2,
                                               range.end_byte \div 2))
             ranges == IF index = query.injection_content_capture_id
                       THEN Append(st.query_ranges, range)
                       ELSE st.query_ranges
             language == IF index = query.injection_mimetype_capture_id
                         THEN [tag |-> "Some", language |-> LanguageMimetype(named)]
                         ELSE IF index = query.injection_language_capture_id
                         THEN [tag |-> "Some", language |-> LanguageName(named)]
                         ELSE st.query_language
         IN  MatchCaptures(query, txt, node_range, k + 1, MatchState(ranges, language))

\* The language of a match taken from the inline capture first and from
\* the static setting only when there is none.
ResolveLanguage_inline_first(info_language, query_language) ==
    IF query_language.tag = "Some" THEN query_language
    ELSE IF info_language.tag = "Static"
    THEN [tag |-> "Some", language |-> info_language.language]
    ELSE None

\* The match on info.language: the static setting, or else the language
\* the captures gave, or else none (the match is skipped).
ResolveLanguage(info_language, query_language) ==
    IF info_language.tag = "NotSpecified" THEN query_language
    ELSE [tag |-> "Some", language |-> info_language.language]

\* The body of the matches loop without the test for empty query_ranges:
\* the enclosing range of a match without content is the node's.
MatchInjection_keeps_empty(query, tree, txt, byte_offset, point_offset, i) ==
    LET node_range == NodeRange(tree, i, byte_offset, point_offset)
        st == MatchCaptures(query, txt, node_range, 1, MatchState(<<>>, None))
        language == ResolveLanguage(query.language, st.query_language)
        first == IF st.query_ranges = <<>> THEN node_range ELSE st.query_ranges[1]
        last == IF st.query_ranges = <<>> THEN node_range
                ELSE st.query_ranges[Len(st.query_ranges)]
    IN  IF language.tag # "Some" THEN None
        ELSE [tag |-> "Some",
              injection |->
                  InjectionMatch(0, language.language,
                                 ByteRange(first.start_byte, last.end_byte),
                                 st.query_ranges,
                                 ByteRange(node_range.start_byte, node_range.end_byte))]

\* The body of the matches loop for the match on node i: the
\* InjectionMatch, or None when the match is skipped.
MatchInjection(query, tree, txt, byte_offset, point_offset, i) ==
    LET node_range == NodeRange(tree, i, byte_offset, point_offset)
        st == MatchCaptures(query, txt, node_range, 1, MatchState(<<>>, None))
        language == ResolveLanguage(query.language, st.query_language)
    IN  IF st.query_ranges = <<>> \/ language.tag # "Some" THEN None
        ELSE [tag |-> "Some",
              injection |->
                  InjectionMatch(0, language.language,
                                 ByteRange(st.query_ranges[1].start_byte,
                                           st.query_ranges[Len(st.query_ranges)].end_byte),
                                 st.query_ranges,
                                 ByteRange(node_range.start_byte, node_range.end_byte))]

\* The InjectionMatch of every match the loop does not skip, in the order
\* of the matches: node after node, and on one node pattern after pattern.
MatchedInjections(query, tree, txt, byte_offset, point_offset, changed_byte_range) ==
    LET cursor_range == ByteRange(Max(changed_byte_range.start - 2, 0),
                                  changed_byte_range.end + 2)
        patterns == PatternsOf(query)
        count == Len(patterns)
        node_of(n) == ((n - 1) \div count) + 1
        pattern_of(n) == ((n - 1) % count) + 1
        found_of == [p \in 1..count |->
                        InjectionMatches(patterns[p], tree, byte_offset, cursor_range)]
        matches == SelectSeq([n \in 1..(Len(tree) * count) |-> n],
                             LAMBDA n :
                                 \E k \in DOMAIN found_of[pattern_of(n)] :
                                     found_of[pattern_of(n)][k] = node_of(n))
        all == [k \in 1..Len(matches) |->
                   LET m == MatchInjection(patterns[pattern_of(matches[k])], tree, txt,
                                           byte_offset, point_offset, node_of(matches[k]))
                   IN  IF m.tag = "Some"
                       THEN [m EXCEPT !.injection.id = pattern_of(matches[k]) - 1]
                       ELSE m]
        kept == SelectSeq(all, LAMBDA m : m.tag = "Some")
    IN  [k \in 1..Len(kept) |-> kept[k].injection]

collect_injections(query, tree, txt, byte_offset, point_offset, changed_byte_range) ==
    MergeInjections(MatchedInjections(query, tree, txt, byte_offset, point_offset,
                                      changed_byte_range), 1, <<>>)

(***************************************************************************)
(* syntax_snapshot.rs: parse commands and entries                          *)
(***************************************************************************)
Known(language_id) == [tag |-> "Known", id |-> language_id, unknown |-> None]
Unknown(unknown_language) == [tag |-> "Unknown", id |-> -1, unknown |-> unknown_language]

ParseCommand(depth, language, included_ranges, byte_range, byte_offset, point_offset, captured) ==
    [depth |-> depth, language |-> language, included_ranges |-> included_ranges,
     byte_range |-> byte_range, byte_offset |-> byte_offset,
     point_offset |-> point_offset, captured |-> captured]

RootCommand(language_id, txt) ==
    ParseCommand(0, Known(language_id), <<>>, ByteRange(0, Len(txt) * 2), 0, Point(0, 0),
                 ByteRange(0, Len(txt) * 2))

source_language(reg, parse_command) ==
    IF parse_command.language.tag = "Known"
    THEN LET l == LanguageRegistry_language(reg, parse_command.language.id)
         IN  IF l.tag = "Some" THEN LanguageName(l.language.name)
             ELSE LanguageName("Language(?)")
    ELSE parse_command.language.unknown

\* from_injection that gives an unresolved name the first language of the
\* registry.
from_injection_first_language(reg, injection, depth) ==
    LET found == with_unknown_language(reg, injection.language)
        language == IF found.tag = "Some" THEN Known(found.language.id)
                    ELSE Known(reg[1].id)
        injection_start == injection.included_ranges[1]
    IN  ParseCommand(depth, language, injection.included_ranges,
                     injection.enclosing_byte_range,
                     injection_start.start_byte, injection_start.start_point,
                     injection.captured)

from_injection(reg, injection, depth) ==
    LET found == with_unknown_language(reg, injection.language)
        language == IF found.tag = "Some" THEN Known(found.language.id)
                    ELSE Unknown(injection.language)
        injection_start == injection.included_ranges[1]
    IN  ParseCommand(depth, language, injection.included_ranges,
                     injection.enclosing_byte_range,
                     injection_start.start_byte, injection_start.start_point,
                     injection.captured)

\* impl Ord for ParseCommand, before the reverse() that turns the max-heap
\* into a min-heap: TRUE when a is popped before b.
\* The order by byte range alone.
CommandBefore_by_start(a, b) ==
    \/ a.byte_range.start < b.byte_range.start
    \/ a.byte_range.start = b.byte_range.start /\ a.byte_range.end < b.byte_range.end

\* Ord for ParseCommand, reversed for the max-heap: a is popped before b.
CommandBefore(a, b) ==
    \/ a.depth < b.depth
    \/ a.depth = b.depth /\ a.byte_range.start < b.byte_range.start
    \/ /\ a.depth = b.depth
       /\ a.byte_range.start = b.byte_range.start
       /\ a.byte_range.end < b.byte_range.end

\* The positions BinaryHeap::pop may return.
PopCandidates(queue) ==
    {k \in 1..Len(queue) : \A j \in 1..Len(queue) : ~CommandBefore(queue[j], queue[k])}

RemoveAt(queue, k) == [i \in 1..(Len(queue) - 1) |-> IF i < k THEN queue[i] ELSE queue[i + 1]]

Parsed(language_id, tree) ==
    [tag |-> "Parsed", language |-> language_id, tree |-> tree, hint |-> None]
Unparsed(unknown_language) ==
    [tag |-> "Unparsed", language |-> -1, tree |-> <<>>, hint |-> unknown_language]

SyntaxSnapshotEntry(parse_command, content) ==
    [depth |-> parse_command.depth, content |-> content,
     byte_range |-> parse_command.byte_range,
     byte_offset |-> parse_command.byte_offset,
     point_offset |-> parse_command.point_offset,
     captured |-> parse_command.captured]

\* new_unparsed with the offsets left at their defaults.
new_unparsed_no_offset(reg, parse_command) ==
    [SyntaxSnapshotEntry(parse_command, Unparsed(source_language(reg, parse_command)))
        EXCEPT !.byte_offset = 0, !.point_offset = Point(0, 0)]

new_unparsed(reg, parse_command) ==
    SyntaxSnapshotEntry(parse_command, Unparsed(source_language(reg, parse_command)))

\* included_ranges translated into the command's local coordinates.
LocalRanges(parse_command) ==
    [i \in 1..Len(parse_command.included_ranges) |->
        LET r == parse_command.included_ranges[i]
        IN  Range(r.start_byte - parse_command.byte_offset,
                  r.end_byte - parse_command.byte_offset,
                  sub_point(r.start_point, parse_command.point_offset),
                  sub_point(r.end_point, parse_command.point_offset))]

\* What collect_injections returns for the tree of a command, or None
\* when the language has no injection query.
CommandInjections(language, tree, txt, parse_command) ==
    IF language.injections_query.tag = "Some"
    THEN [tag |-> "Some",
          matches |-> collect_injections(language.injections_query, tree, txt,
                                         parse_command.byte_offset,
                                         parse_command.point_offset,
                                         parse_command.byte_range)]
    ELSE None

\* included_ranges.first().expect(..) of from_injection fails for one of
\* the injections.
ExpectFails(found) ==
    /\ found.tag = "Some"
    /\ \E i \in 1..Len(found.matches) : found.matches[i].included_ranges = <<>>

\* The commands the turn queues: one from_injection for every injection
\* found.
ChildCommands(reg, found, parse_command) ==
    IF found.tag = "Some"
    THEN [i \in 1..Len(found.matches) |->
             from_injection(reg, found.matches[i], parse_command.depth + 1)]
    ELSE <<>>

\* The state of one build: the queue, the entries pushed so far, the
\* changed ranges and where the function is ("loop", "none" after the
\* early return of with_language(..).ok()?, "panic").
BuildState(queue, ents, changed, status) ==
    [parse_queue |-> queue, entries |-> ents, changed_ranges |-> changed, status |-> status,
     injections |-> None]

\* The state after a turn that came to the call of collect_injections,
\* with what the call returned.
BuildTurn(queue, ents, changed, status, found) ==
    [parse_queue |-> queue, entries |-> ents, changed_ranges |-> changed, status |-> status,
     injections |-> found]

\* The rest of a turn from the call of collect_injections on: found is
\* what the call returned for the tree of the command, changed the
\* changed ranges once the entry is pushed.
TurnOnTree(rest, ents, changed_before, changed, reg, parse_command, language_id, tree, found) ==
    IF ExpectFails(found)
    THEN BuildTurn(rest, ents, changed_before, "panic", found)
    ELSE BuildTurn(rest \o ChildCommands(reg, found, parse_command),
                   Append(ents, SyntaxSnapshotEntry(parse_command, Parsed(language_id, tree))),
                   changed, "loop", found)

\* The turn for parse_command from the lookup of its language on: found
\* is what LanguageRegistry::language returned and parsed what
\* ParsersPool::with_parser returned.
TurnOnCommand(rest, ents, changed_before, changed, reg, txt, parse_command, found, parsed) ==
    IF parse_command.language.tag # "Known"
    THEN BuildState(rest, Append(ents, new_unparsed(reg, parse_command)), changed_before, "loop")
    ELSE IF found.tag # "Some"
    THEN BuildState(rest, ents, changed_before, "none")
    ELSE IF parsed.tag = "panic"
    THEN BuildState(rest, ents, changed_before, "panic")
    ELSE IF parsed.tag # "Some"
    THEN BuildState(rest, Append(ents, new_unparsed(reg, parse_command)), changed_before, "loop")
    ELSE TurnOnTree(rest, ents, changed_before, changed, reg, parse_command,
                    found.language.id, parsed.tree,
                    CommandInjections(found.language, parsed.tree, txt, parse_command))

\* with_parser(|parser| parser.parse_utf16_le(..)) for parse_command in
\* the language the registry holds for it.
ParseCommandTree(parse_command, found, txt, old_tree) ==
    with_parser_parse(found.language, LocalRanges(parse_command), parse_command.byte_range,
                      txt, old_tree)

\* One iteration of the while-let loop of SyntaxSnapshot::parse, popping
\* the command at position k.
ParseIteration(st, k, txt, reg) ==
    TurnOnCommand(RemoveAt(st.parse_queue, k), st.entries, st.changed_ranges, st.changed_ranges,
                  reg, txt, st.parse_queue[k],
                  LanguageRegistry_language(reg, st.parse_queue[k].language.id),
                  ParseCommandTree(st.parse_queue[k],
                                   LanguageRegistry_language(reg, st.parse_queue[k].language.id),
                                   txt, None))

\* The return without the test that the first entry is Parsed.
ParseReturn_any_first(ents, changed) ==
    IF ents # <<>>
    THEN [tag |-> "Some", snapshot |-> [entries |-> ents], changed_ranges |-> changed]
    ELSE None

\* The value the function returns once the queue is empty.
ParseReturn(ents, changed) ==
    IF ents # <<>> /\ ents[1].content.tag = "Parsed"
    THEN [tag |-> "Some", snapshot |-> [entries |-> ents], changed_ranges |-> changed]
    ELSE None

\* The reuse test comparing the old root's end with the new end as it is,
\* without the edit's length delta.
ReuseBasis_unadjusted(parse_command, language_id, old, e) ==
    IF parse_command.depth = 0
    THEN LET old_entry == old.entries[1]
         IN  IF /\ old_entry.byte_range.end >= e.old_end_byte
                /\ old_entry.byte_range.end = parse_command.byte_range.end
                /\ old_entry.content.tag = "Parsed"
                /\ old_entry.content.language = language_id
             THEN [tag |-> "Some", tree |-> ts_tree_edit(old_entry.content.tree, e)]
             ELSE None
    ELSE None

\* The old root tree as basis for every command.
ReuseBasis_any_depth(parse_command, language_id, old, e) ==
    LET old_entry == old.entries[1]
    IN  IF /\ old_entry.byte_range.end >= e.old_end_byte
           /\ old_entry.content.tag = "Parsed"
        THEN [tag |-> "Some", tree |-> ts_tree_edit(old_entry.content.tree, e)]
        ELSE None

\* The reuse basis of parse_incremental for one command.
ReuseBasis(parse_command, language_id, old, e) ==
    IF parse_command.depth = 0
    THEN LET old_entry == old.entries[1]
         IN  IF /\ old_entry.byte_range.end >= e.old_end_byte
                /\ (old_entry.byte_range.end - e.old_end_byte) + e.new_end_byte
                       = parse_command.byte_range.end
                /\ old_entry.content.tag = "Parsed"
                /\ old_entry.content.language = language_id
             THEN [tag |-> "Some", tree |-> ts_tree_edit(old_entry.content.tree, e)]
             ELSE None
    ELSE None

\* The edit's span taken up to the old end of the edit.
EditRange_old_end(e) ==
    Range(e.start_byte, e.old_end_byte, e.start_position, e.old_end_position)

\* The first element of changed_ranges: the edit's own span.
EditRange(e) ==
    Range(e.start_byte, e.new_end_byte, e.start_position, e.new_end_position)

base_language(snap) == snap.entries[1].content.language

\* The root command with the byte range of the old root entry.
IncrementalRootCommand_stale(old, txt) ==
    [RootCommand(base_language(old), txt) EXCEPT !.byte_range = old.entries[1].byte_range]

\* The root command parse_incremental queues.
IncrementalRootCommand(old, txt) == RootCommand(base_language(old), txt)

\* One iteration of the while-let loop of SyntaxSnapshot::parse_incremental.
\* The old snapshot after an iteration that edits the old root tree where
\* it stands.
OldSnapshot_edited_in_place(parse_command, reg, old, e) ==
    IF /\ parse_command.language.tag = "Known"
       /\ LanguageRegistry_language(reg, parse_command.language.id).tag = "Some"
       /\ ReuseBasis(parse_command, parse_command.language.id, old, e).tag = "Some"
    THEN [old EXCEPT !.entries[1].content.tree = ts_tree_edit(@, e)]
    ELSE old

\* The old snapshot after an iteration of parse_incremental: old_snapshot
\* is a shared reference and the edit is applied to a clone of the old
\* root tree, which leaves the tree the clone was taken from as it was.
OldSnapshot(parse_command, reg, old, e) == old

\* old_tree as the turn for parse_command hands it to parse_utf16; a
\* turn that leaves the loop body earlier has none.
LoopOldTree(parse_command, reg, old, e) ==
    IF /\ parse_command.language.tag = "Known"
       /\ LanguageRegistry_language(reg, parse_command.language.id).tag = "Some"
    THEN ReuseBasis(parse_command, parse_command.language.id, old, e)
    ELSE None

\* The changed ranges after a turn that parsed new_tree: the ranges
\* changed against the old tree, or the turn's included ranges when no old
\* tree was reused.
ChangedAfter(changed_before, parse_command, old_tree, parsed) ==
    IF old_tree.tag = "Some"
    THEN changed_before \o ts_changed_ranges(old_tree.tree, parsed.tree, 1)
    ELSE changed_before \o LocalRanges(parse_command)

IncrementalTurn(rest, ents, changed_before, reg, txt, parse_command, found, old_tree, parsed) ==
    TurnOnCommand(rest, ents, changed_before,
                  ChangedAfter(changed_before, parse_command, old_tree, parsed),
                  reg, txt, parse_command, found, parsed)

IncrementalTurnOnTree(rest, ents, changed_before, reg, txt, parse_command, found, old_tree) ==
    IncrementalTurn(rest, ents, changed_before, reg, txt, parse_command, found, old_tree,
                    ParseCommandTree(parse_command, found, txt, old_tree))

ParseIncrementalIteration(st, k, txt, reg, old, e) ==
    IncrementalTurnOnTree(RemoveAt(st.parse_queue, k), st.entries, st.changed_ranges, reg, txt,
                          st.parse_queue[k],
                          LanguageRegistry_language(reg, st.parse_queue[k].language.id),
                          ReuseBasis(st.parse_queue[k], st.parse_queue[k].language.id, old, e))

\* SyntaxSnapshot::parse as a function: the loop run to its end, popping
\* the first candidate each time.
RECURSIVE RunParse(_, _, _)
RunParse(st, txt, reg) ==
    IF st.status # "loop" THEN [tag |-> st.status]
    ELSE IF st.parse_queue = <<>> THEN ParseReturn(st.entries, st.changed_ranges)
    ELSE RunParse(ParseIteration(st,
                                 CHOOSE k \in PopCandidates(st.parse_queue) :
                                     \A j \in PopCandidates(st.parse_queue) : k <= j,
                                 txt, reg),
                  txt, reg)

parse(language_id, txt, reg) ==
    RunParse(BuildState(<<RootCommand(language_id, txt)>>, <<>>, <<>>, "loop"), txt, reg)


(***************************************************************************)
(* syntax_snapshot.rs: SyntaxSnapshotTreeCursor.  The entry stack is a     *)
(* sequence of frames [entry, node]: the index of a snapshot entry and the *)
(* position of that entry's ts::TreeCursor in its tree.                   *)
(***************************************************************************)
Frame(entry_idx, node_idx) == [entry |-> entry_idx, node |-> node_idx]

Children(tree, i) == {j \in 1..Len(tree) : tree[j].parent = i}

\* ts::TreeCursor moves inside one tree; 0 when the cursor cannot move.
ts_first_child(tree, i) ==
    IF Children(tree, i) = {} THEN 0
    ELSE CHOOSE j \in Children(tree, i) : \A k \in Children(tree, i) : j <= k

ts_next_sibling(tree, i) ==
    LET later == {j \in Children(tree, tree[i].parent) : j > i}
    IN  IF later = {} THEN 0 ELSE CHOOSE j \in later : \A k \in later : j <= k

ts_previous_sibling(tree, i) ==
    LET earlier == {j \in Children(tree, tree[i].parent) : j < i}
    IN  IF earlier = {} THEN 0 ELSE CHOOSE j \in earlier : \A k \in earlier : j >= k

\* The first child that ends after the byte.
ts_first_child_for_byte(tree, i, local_index) ==
    LET beyond == {j \in Children(tree, i) : tree[j].e > local_index}
    IN  IF beyond = {} THEN 0 ELSE CHOOSE j \in beyond : \A k \in beyond : j <= k

walk(snap) == <<Frame(1, 1)>>

Top(stack) == stack[Len(stack)]

TopEntry(snap, stack) == snap.entries[Top(stack).entry]

cursor_language(snap, stack) == TopEntry(snap, stack).content.language

\* node(): the byte range of the cursor's node, in document coordinates.
FrameRange(snap, frame) ==
    LET entry == snap.entries[frame.entry]
        n == entry.content.tree[frame.node]
    IN  ByteRange(n.s + entry.byte_offset, n.e + entry.byte_offset)

node_range(snap, stack) == FrameRange(snap, Top(stack))

node_kind(snap, stack) == TopEntry(snap, stack).content.tree[Top(stack).node].kind

MoveTop(stack, node_idx) == [stack EXCEPT ![Len(stack)].node = node_idx]

\* The first entry of any depth that lies inside the node's range.
CandidateEntry_any_depth(snap, stack) ==
    LET nr == node_range(snap, stack)
        inside == {i \in 1..Len(snap.entries) :
                      /\ snap.entries[i].byte_range.start >= nr.start
                      /\ snap.entries[i].byte_range.end <= nr.end}
    IN  IF inside = {} THEN 0 ELSE CHOOSE i \in inside : \A j \in inside : i <= j

\* The first entry one level deeper that lies inside the node's range.
CandidateEntry(snap, stack) ==
    LET entry == TopEntry(snap, stack)
        nr == node_range(snap, stack)
        inside == {i \in 1..Len(snap.entries) :
                      /\ snap.entries[i].depth = entry.depth + 1
                      /\ snap.entries[i].byte_range.start >= nr.start
                      /\ snap.entries[i].byte_range.end <= nr.end}
    IN  IF inside = {} THEN 0 ELSE CHOOSE i \in inside : \A j \in inside : i <= j

\* Each cursor move yields the new stack, or None when the move fails.
goto_first_child_for_byte(snap, stack, index) ==
    LET entry == TopEntry(snap, stack)
        child == ts_first_child_for_byte(entry.content.tree, Top(stack).node,
                                         index - entry.byte_offset)
        idx == CandidateEntry(snap, stack)
    IN  IF index < entry.byte_range.start \/ index >= entry.byte_range.end THEN None
        ELSE IF child # 0 THEN [tag |-> "Some", stack |-> MoveTop(stack, child)]
        ELSE IF idx # 0 /\ snap.entries[idx].content.tag = "Parsed"
        THEN [tag |-> "Some", stack |-> Append(stack, Frame(idx, 1))]
        ELSE None

goto_first_child(snap, stack) ==
    LET child == ts_first_child(TopEntry(snap, stack).content.tree, Top(stack).node)
        idx == CandidateEntry(snap, stack)
    IN  IF child # 0 THEN [tag |-> "Some", stack |-> MoveTop(stack, child)]
        ELSE IF idx # 0 /\ snap.entries[idx].content.tag = "Parsed"
        THEN [tag |-> "Some", stack |-> Append(stack, Frame(idx, 1))]
        ELSE None

goto_previous_sibling(snap, stack) ==
    LET sib == ts_previous_sibling(TopEntry(snap, stack).content.tree, Top(stack).node)
    IN  IF sib # 0 THEN [tag |-> "Some", stack |-> MoveTop(stack, sib)] ELSE None

goto_next_sibling(snap, stack) ==
    LET sib == ts_next_sibling(TopEntry(snap, stack).content.tree, Top(stack).node)
    IN  IF sib # 0 THEN [tag |-> "Some", stack |-> MoveTop(stack, sib)] ELSE None

\* goto_parent that leaves an injected entry before it tries the local cursor.
goto_parent_pops_first(snap, stack) ==
    LET up == TopEntry(snap, stack).content.tree[Top(stack).node].parent
    IN  IF Len(stack) > 1 THEN [tag |-> "Some", stack |-> SubSeq(stack, 1, Len(stack) - 1)]
        ELSE IF up # 0 THEN [tag |-> "Some", stack |-> MoveTop(stack, up)]
        ELSE None

goto_parent(snap, stack) ==
    LET up == TopEntry(snap, stack).content.tree[Top(stack).node].parent
    IN  IF up # 0 THEN [tag |-> "Some", stack |-> MoveTop(stack, up)]
        ELSE IF Len(stack) > 1 THEN [tag |-> "Some", stack |-> SubSeq(stack, 1, Len(stack) - 1)]
        ELSE None

(***************************************************************************)
(* highlighting_lexer/query.rs                                             *)
(***************************************************************************)
\* u16::MAX: no capture, no node kind
NoneId == 65535

ParentStackEntry(snap, stack) ==
    [language |-> cursor_language(snap, stack), node_id |-> Top(stack),
     range |-> node_range(snap, stack)]

\* The first loop of find_cover_start: down to the deepest node for the byte.
RECURSIVE CoverDescend(_, _, _, _)
CoverDescend(snap, byte, stack, pstack) ==
    LET pushed == Append(pstack, ParentStackEntry(snap, stack))
        moved == goto_first_child_for_byte(snap, stack, byte)
    IN  IF moved.tag = "Some" THEN CoverDescend(snap, byte, moved.stack, pushed)
        ELSE [entry_stack |-> stack, parent_stack |-> pushed]

\* The second loop that stops at the root with the root's start.
RECURSIVE CoverExtend_root_start(_, _, _, _, _)
CoverExtend_root_start(snap, byte, cover, stack, pstack) ==
    LET prev == goto_previous_sibling(snap, stack)
        up == goto_parent(snap, stack)
    IN  IF cover < byte
        THEN [cover_start_byte |-> cover, parent_stack |-> pstack, entry_stack |-> stack]
        ELSE IF prev.tag = "Some"
        THEN CoverExtend_root_start(snap, byte, node_range(snap, prev.stack).end, prev.stack,
                         [pstack EXCEPT ![Len(pstack)] = ParentStackEntry(snap, prev.stack)])
        ELSE IF up.tag = "Some"
        THEN CoverExtend_root_start(snap, byte, node_range(snap, up.stack).start, up.stack,
                         SubSeq(pstack, 1, Len(pstack) - 1))
        ELSE [cover_start_byte |-> cover, parent_stack |-> pstack, entry_stack |-> stack]

\* The second loop: left through the siblings and up through the parents.
RECURSIVE CoverExtend(_, _, _, _, _)
CoverExtend(snap, byte, cover, stack, pstack) ==
    LET prev == goto_previous_sibling(snap, stack)
        up == goto_parent(snap, stack)
    IN  IF cover < byte
        THEN [cover_start_byte |-> cover, parent_stack |-> pstack, entry_stack |-> stack]
        ELSE IF prev.tag = "Some"
        THEN CoverExtend(snap, byte, node_range(snap, prev.stack).end, prev.stack,
                         [pstack EXCEPT ![Len(pstack)] = ParentStackEntry(snap, prev.stack)])
        ELSE IF up.tag = "Some"
        THEN CoverExtend(snap, byte, node_range(snap, up.stack).start, up.stack,
                         SubSeq(pstack, 1, Len(pstack) - 1))
        ELSE [cover_start_byte |-> 0, parent_stack |-> pstack, entry_stack |-> stack]

\* find_cover_start without its second loop.
find_cover_start_no_extension(snap, byte) ==
    LET down == CoverDescend(snap, byte, walk(snap), <<>>)
    IN  [cover_start_byte |-> node_range(snap, down.entry_stack).start,
         parent_stack |-> down.parent_stack, entry_stack |-> down.entry_stack]

find_cover_start(snap, byte) ==
    LET down == CoverDescend(snap, byte, walk(snap), <<>>)
    IN  CoverExtend(snap, byte, node_range(snap, down.entry_stack).start,
                    down.entry_stack, down.parent_stack)

\* One capture the query cursor yields: the entry it was found in, the
\* captured node's range, the capture and the pattern of the match.
Capture(entry_idx, language_id, range, capture_id, pattern_index) ==
    [entry |-> entry_idx, language |-> language_id, range |-> range,
     capture_id |-> capture_id, pattern_index |-> pattern_index]

\* The captures of the highlight query of one entry inside the byte range.
EntryCaptures(reg, snap, entry_idx, byte_range) ==
    LET entry == snap.entries[entry_idx]
        found == LanguageRegistry_language(reg, entry.content.language)
        query == found.language.highlights_query
        tree == entry.content.tree
    IN  IF entry.content.tag # "Parsed" THEN {}
        ELSE IF found.tag # "Some" THEN {}
        ELSE IF query.tag # "Some" THEN {}
        ELSE {Capture(entry_idx, entry.content.language,
                      ByteRange(tree[n].s + entry.byte_offset, tree[n].e + entry.byte_offset),
                      query.patterns[p].capture, p - 1) :
                 <<n, p>> \in {np \in (1..Len(tree)) \X (1..Len(query.patterns)) :
                                 /\ tree[np[1]].kind = query.patterns[np[2]].kind
                                 /\ tree[np[1]].e + entry.byte_offset > byte_range.start
                                 /\ tree[np[1]].s + entry.byte_offset < byte_range.end}}

\* The entries collect_highlights_for_range iterates, in order.
IntersectingEntries(snap, byte_range) ==
    SelectSeq([i \in 1..Len(snap.entries) |-> i],
              LAMBDA i : /\ snap.entries[i].byte_range.start <= byte_range.end
                         /\ snap.entries[i].byte_range.end >= byte_range.start)

Lookup(hls, range) ==
    IF \E h \in hls : h.range = range
    THEN [tag |-> "Some", value |-> CHOOSE h \in hls : h.range = range]
    ELSE None

\* The rule that keeps the capture of the lower pattern index.
InsertHighlight_lowest(reg, hls, c) ==
    LET found == LanguageRegistry_language(reg, c.language)
        visible == c.capture_id \in found.language.highlights_query.visible
        other == Lookup(hls, c.range)
    IN  IF ~visible THEN hls
        ELSE IF /\ other.tag = "Some"
                /\ other.value.language = c.language
                /\ c.pattern_index > other.value.pattern_index
        THEN hls
        ELSE {h \in hls : h.range # c.range} \cup {c}

\* The body of the while-let loop of collect_highlights_for_range for one
\* capture: the visibility test, the pattern-index test, the insert.
InsertHighlight(reg, hls, c) ==
    LET found == LanguageRegistry_language(reg, c.language)
        visible == c.capture_id \in found.language.highlights_query.visible
        other == Lookup(hls, c.range)
    IN  IF ~visible THEN hls
        ELSE IF /\ other.tag = "Some"
                /\ other.value.language = c.language
                /\ c.pattern_index < other.value.pattern_index
        THEN hls
        ELSE {h \in hls : h.range # c.range} \cup {c}

\* The seed of the highlight stack: the ancestors whose range is recorded
\* for their language.
SeedHighlightStack(pstack, hls) ==
    LET kept == SelectSeq(pstack,
                          LAMBDA e : /\ Lookup(hls, e.range).tag = "Some"
                                     /\ Lookup(hls, e.range).value.language = e.language)
    IN  [i \in 1..Len(kept) |->
            [language |-> kept[i].language, node_id |-> kept[i].node_id,
             capture_id |-> Lookup(hls, kept[i].range).value.capture_id]]

\* capture_id of a token: the top of the stack when it is of the token's
\* language.
TopCapture(language_id, hstack) ==
    IF hstack # <<>> /\ hstack[Len(hstack)].language = language_id
    THEN hstack[Len(hstack)].capture_id
    ELSE NoneId

\* The nodes above and at the cursor, outermost first, through the frames.
RECURSIVE LocalChain(_, _, _)
LocalChain(snap, entry_idx, node_idx) ==
    IF node_idx = 0 THEN <<>>
    ELSE Append(LocalChain(snap, entry_idx,
                           snap.entries[entry_idx].content.tree[node_idx].parent),
                [language |-> snap.entries[entry_idx].content.language,
                 range |-> FrameRange(snap, Frame(entry_idx, node_idx))])

RECURSIVE CursorChain(_, _, _)
CursorChain(snap, stack, k) ==
    IF k > Len(stack) THEN <<>>
    ELSE LocalChain(snap, stack[k].entry, stack[k].node) \o CursorChain(snap, stack, k + 1)

\* HighlightToken; from, to, leaf and chain are not fields of the source:
\* they record the span the token was cut from and, for a node's token,
\* the nodes above it.
HighlightToken(language_id, kind_id, capture_id, from, to, leaf, chain) ==
    [language_id |-> language_id, kind_id |-> kind_id, capture_id |-> capture_id,
     length |-> (to - from) \div 2, from |-> from, to |-> to, leaf |-> leaf, chain |-> chain]

token_from_node(snap, stack, hstack) ==
    HighlightToken(cursor_language(snap, stack), node_kind(snap, stack),
                   TopCapture(cursor_language(snap, stack), hstack),
                   node_range(snap, stack).start, node_range(snap, stack).end,
                   TRUE, CursorChain(snap, stack, 1))

token_from_node_subrange(from, to, language_id, hstack) ==
    HighlightToken(language_id, NoneId, TopCapture(language_id, hstack), from, to,
                   FALSE, <<>>)

\* The push after a move to a child or a sibling.
PushHighlight(snap, stack, hls, hstack) ==
    LET h == Lookup(hls, node_range(snap, stack))
    IN  IF h.tag = "Some" /\ cursor_language(snap, stack) = h.value.language
        THEN Append(hstack, [language |-> h.value.language, node_id |-> Top(stack),
                             capture_id |-> h.value.capture_id])
        ELSE hstack

\* The pop when the end of the cursor's node is reached.
PopHighlight(snap, stack, hstack) ==
    IF /\ hstack # <<>>
       /\ hstack[Len(hstack)].node_id = Top(stack)
       /\ hstack[Len(hstack)].language = cursor_language(snap, stack)
    THEN SubSeq(hstack, 1, Len(hstack) - 1)
    ELSE hstack

EmitState(stack, hstack, tokens, current, status) ==
    [entry_stack |-> stack, highlight_stack |-> hstack, highlight_tokens |-> tokens,
     byte_current |-> current, status |-> status]

\* The move without the gap token.
Entered_no_gap(snap, hls, moved, hstack, tokens, current) ==
    EmitState(moved, PushHighlight(snap, moved, hls, hstack), tokens,
              Max(current, node_range(snap, moved).start), "loop")

\* After a move to a child or a sibling: the gap token, the push.
Entered(snap, hls, moved, hstack, tokens, current) ==
    LET start == node_range(snap, moved).start
        gap == start > current
    IN  EmitState(moved,
                  PushHighlight(snap, moved, hls, hstack),
                  IF gap
                  THEN Append(tokens, token_from_node_subrange(
                                          current, start, cursor_language(snap, moved), hstack))
                  ELSE tokens,
                  IF gap THEN start ELSE current,
                  "loop")

\* The move to the parent that emits the token and leaves the position.
Ascended_keeps_position(snap, moved, hstack, tokens, current) ==
    LET end == node_range(snap, moved).end
    IN  EmitState(moved, hstack,
                  IF end > current
                  THEN Append(tokens, token_from_node_subrange(
                                          current, end, cursor_language(snap, moved), hstack))
                  ELSE tokens,
                  current, "loop")

\* After a move to the parent: the token up to the parent's end.
Ascended(snap, moved, hstack, tokens, current) ==
    LET end == node_range(snap, moved).end
    IN  IF end > current
        THEN EmitState(moved, hstack,
                       Append(tokens, token_from_node_subrange(
                                          current, end, cursor_language(snap, moved), hstack)),
                       end, "loop")
        ELSE EmitState(moved, hstack, tokens, current, "loop")

\* One iteration of the emit loop of highlight_tokens_cover.
EmitIteration(snap, hls, st) ==
    LET stack == st.entry_stack
        nr == node_range(snap, stack)
        current == st.byte_current
        child == goto_first_child(snap, stack)
        popped == PopHighlight(snap, stack, st.highlight_stack)
        sibling == goto_next_sibling(snap, stack)
        up == goto_parent(snap, stack)
    IN  IF current < nr.end
        THEN IF child.tag = "Some"
             THEN Entered(snap, hls, child.stack, st.highlight_stack,
                          st.highlight_tokens, current)
             ELSE EmitState(stack, st.highlight_stack,
                            Append(IF current < nr.start
                                   THEN Append(st.highlight_tokens,
                                               token_from_node_subrange(
                                                   current, nr.start,
                                                   cursor_language(snap, stack),
                                                   st.highlight_stack))
                                   ELSE st.highlight_tokens,
                                   token_from_node(snap, stack, st.highlight_stack)),
                            nr.end, "loop")
        ELSE IF sibling.tag = "Some"
             THEN Entered(snap, hls, sibling.stack, popped, st.highlight_tokens, current)
        ELSE IF up.tag = "Some"
             THEN Ascended(snap, up.stack, popped, st.highlight_tokens, current)
        ELSE EmitState(stack, popped, st.highlight_tokens, current, "break")

(***************************************************************************)
(* predicates.rs: the contains? family                                     *)
(***************************************************************************)
\* Most instances of the capture in one match, and the longest node text.
MaxInstances == 2
MaxNodeLen == 2

\* The UTF-16 code units of the node texts: two ASCII units and a lone
\* surrogate.
NodeUnits == {"a", "<", "D800"}

NodeTexts == UNION {[1..n -> NodeUnits] : n \in 1..MaxNodeLen}

\* The literals of the predicates, as UTF-8 bytes.
Literals == {<<>>, <<"a">>, <<"<">>, <<"a", "<">>, <<"EF", "BF", "BD">>}

ContainsOperators == {"contains?", "not-contains?", "any-contains?", "any-not-contains?"}

\* char::decode_utf16(..).unwrap_or(REPLACEMENT_CHARACTER) and encode_utf8
\* for one code unit: an unpaired surrogate becomes U+FFFD.
encode_utf8(unit) == IF unit = "D800" THEN <<"EF", "BF", "BD">> ELSE <<unit>>

\* RecodingUtf16TextProviderIterator::next: the node's text as UTF-8.
RECURSIVE recode(_)
recode(units) ==
    IF units = <<>> THEN <<>> ELSE encode_utf8(Head(units)) \o recode(Tail(units))

\* str::contains
str_contains(hay, needle) ==
    \E i \in 0..(Len(hay) - Len(needle)) : SubSeq(hay, i + 1, i + Len(needle)) = needle

ContainsPredicate(pattern, is_positive, match_all) ==
    [tag |-> "Some", pattern |-> pattern, is_positive |-> is_positive,
     match_all |-> match_all]

\* parse_predicate with contains? and any-contains? taken for each other.
parse_predicate_all_any_swapped(operator, pattern) ==
    IF operator = "contains?" THEN ContainsPredicate(pattern, TRUE, FALSE)
    ELSE IF operator = "not-contains?" THEN ContainsPredicate(pattern, FALSE, TRUE)
    ELSE IF operator = "any-contains?" THEN ContainsPredicate(pattern, TRUE, TRUE)
    ELSE IF operator = "any-not-contains?" THEN ContainsPredicate(pattern, FALSE, FALSE)
    ELSE [tag |-> "Err"]

\* ContainsPredicateParser::parse_predicate on (operator @capture literal).
parse_predicate(operator, pattern) ==
    IF operator = "contains?" THEN ContainsPredicate(pattern, TRUE, TRUE)
    ELSE IF operator = "not-contains?" THEN ContainsPredicate(pattern, FALSE, TRUE)
    ELSE IF operator = "any-contains?" THEN ContainsPredicate(pattern, TRUE, FALSE)
    ELSE IF operator = "any-not-contains?" THEN ContainsPredicate(pattern, FALSE, FALSE)
    ELSE [tag |-> "Err"]

\* QueryPredicateArg
ArgCapture(id) == [tag |-> "Capture", id |-> id]
ArgString(value) == [tag |-> "String", value |-> value]

\* QueryPredicate
QueryPredicate(operator, args) == [operator |-> operator, args |-> args]

\* QueryError of kind Predicate.
predicate_error(row, message) == [tag |-> "Err", row |-> row, message |-> message]

\* A predicate parser that takes every operator for its own.
can_parse_predicate_any(name) == TRUE

\* can_parse_predicate of PREDICATE_PARSER: the operator is a key of the
\* map and its parser is the parser of the contains? family.
can_parse_predicate(name) == name \in ContainsOperators

\* ContainsPredicateParser::parse_predicate with the tests of the
\* arguments.
ParsePredicate(row, predicate) ==
    IF predicate.operator \notin ContainsOperators
    THEN predicate_error(row, "Invalid operator")
    ELSE IF Len(predicate.args) # 2
    THEN predicate_error(row, "Wrong number of arguments")
    ELSE IF predicate.args[1].tag = "String"
    THEN predicate_error(row, "First argument must be a capture name")
    ELSE IF predicate.args[2].tag = "Capture"
    THEN predicate_error(row, "Second argument must be a literal")
    ELSE [parse_predicate(predicate.operator, predicate.args[2].value)
             EXCEPT !.tag = "Ok"] @@ [capture_id |-> predicate.args[1].id]

\* The text of a pattern of a query source: the line ends before it, its
\* opening parenthesis, each of its predicates on a line of its own, its
\* closing parenthesis.
RECURSIVE PredicateLines(_)
PredicateLines(n) == IF n = 0 THEN <<>> ELSE <<"\n", "#">> \o PredicateLines(n - 1)

PatternText(pattern) ==
    [i \in 1..pattern.before |-> "\n"] \o <<"(">> \o PredicateLines(Len(pattern.predicates))
        \o <<")">>

RECURSIVE SourceText(_)
SourceText(patterns) ==
    IF patterns = <<>> THEN <<>>
    ELSE PatternText(Head(patterns)) \o SourceText(Tail(patterns))

\* Query::start_byte_for_pattern: the offset of the pattern's opening
\* parenthesis (pattern indexes from 0).
start_byte_for_pattern(patterns, pattern_idx) ==
    Len(SourceText(SubSeq(patterns, 1, pattern_idx))) + patterns[pattern_idx + 1].before

\* The row of the parse: the line ends of the source before pattern_start.
PatternRow(source, pattern_start) ==
    Cardinality({i \in 1..pattern_start : source[i] = "\n"})

\* The loop over general_predicates(pattern_idx) from the k-th on: the
\* predicates parsed, or the first error.
RECURSIVE ParsePredicates(_, _, _, _)
ParsePredicates(predicates, row, k, parsed_predicates) ==
    IF k > Len(predicates) THEN [tag |-> "Ok", predicates |-> parsed_predicates]
    ELSE IF ~can_parse_predicate(predicates[k].operator)
    THEN ParsePredicates(predicates, row, k + 1, parsed_predicates)
    ELSE IF ParsePredicate(row, predicates[k]).tag = "Err"
    THEN ParsePredicate(row, predicates[k])
    ELSE ParsePredicates(predicates, row, k + 1,
                         Append(parsed_predicates, ParsePredicate(row, predicates[k])))

\* The loop over the patterns from pattern_idx on.
RECURSIVE ParsePatterns(_, _, _)
ParsePatterns(patterns, pattern_idx, additional) ==
    IF pattern_idx >= Len(patterns) THEN [tag |-> "Ok", predicates |-> additional]
    ELSE LET row == PatternRow(SourceText(patterns),
                               start_byte_for_pattern(patterns, pattern_idx))
             parsed == ParsePredicates(patterns[pattern_idx + 1].predicates, row, 1, <<>>)
         IN  IF parsed.tag = "Err" THEN parsed
             ELSE ParsePatterns(patterns, pattern_idx + 1,
                                Append(additional, parsed.predicates))

\* AdditionalPredicates::parse
AdditionalPredicates_parse(patterns) == ParsePatterns(patterns, 0, <<>>)

\* The loop body that leaves the loop on the first node whatever it holds.
CheckNode_first_decides(p, node_text) ==
    IF str_contains(recode(node_text), p.pattern) = p.is_positive THEN "true" ELSE "false"

\* The body of the loop of check_predicate for one node: the value the
\* function returns from it, or "next".
CheckNode(p, node_text) ==
    LET does_match == str_contains(recode(node_text), p.pattern)
    IN  IF does_match # p.is_positive /\ p.match_all THEN "false"
        ELSE IF does_match = p.is_positive /\ ~p.match_all THEN "true"
        ELSE "next"

\* ContainsPredicate::check_predicate as a function of the node texts.
RECURSIVE check_predicate(_, _, _)
check_predicate(p, nodes, i) ==
    IF i > Len(nodes) THEN p.match_all
    ELSE LET r == CheckNode(p, nodes[i])
         IN  IF r = "next" THEN check_predicate(p, nodes, i + 1) ELSE r = "true"

(***************************************************************************)
(* ranges.rs: collect_ranges                                               *)
(***************************************************************************)
\* The matches of the query inside the cursor's byte range, in tree order.
RangeMatches(query, tree, byte_offset, cursor_range) ==
    SelectSeq([i \in 1..Len(tree) |-> i],
              LAMBDA i : /\ tree[i].kind = query.kind
                         /\ tree[i].e + byte_offset > cursor_range.start
                         /\ tree[i].s + byte_offset < cursor_range.end
                         /\ (query.with_start \/ query.main = "ends") =>
                               \E j \in Children(tree, i) : tree[j].kind = "lt"
                         /\ (query.with_end \/ query.main = "ends") =>
                               \E j \in Children(tree, i) : tree[j].kind = "gt")

\* Node::next_sibling, 0 for none.
next_sibling(tree, i) ==
    LET later == {j \in (i + 1)..Len(tree) : tree[j].parent = tree[i].parent}
    IN  IF tree[i].parent = 0 \/ later = {} THEN 0
        ELSE CHOOSE j \in later : \A m \in later : j <= m

\* The start of the node's next sibling or, without one, the node's end.
NextByte(tree, i, byte_offset) ==
    IF next_sibling(tree, i) = 0 THEN tree[i].e + byte_offset
    ELSE tree[next_sibling(tree, i)].s + byte_offset

\* The loop over nodes_for_capture_index(main_capture_id), from the k-th
\* node on: acc holds start, end and next byte, None before the first node.
RECURSIVE MainSpan(_, _, _, _, _, _)
MainSpan(tree, nodes, k, byte_offset, point_offset, acc) ==
    IF k > Len(nodes) THEN acc
    ELSE LET node == NodeRange(tree, nodes[k], byte_offset, point_offset)
             starts == acc = None \/ node.start_byte < acc.range.start_byte
             ends == acc = None \/ node.end_byte > acc.range.end_byte
             sibling == next_sibling(tree, nodes[k])
             next_start == tree[sibling].s + byte_offset
         IN  MainSpan(tree, nodes, k + 1, byte_offset, point_offset,
                 [tag |-> "Some",
                  range |-> Range(IF starts THEN node.start_byte ELSE acc.range.start_byte,
                                  IF ends THEN node.end_byte ELSE acc.range.end_byte,
                                  IF starts THEN node.start_point ELSE acc.range.start_point,
                                  IF ends THEN node.end_point ELSE acc.range.end_point),
                  next_byte |-> IF sibling = 0 THEN node.end_byte
                                ELSE IF acc = None THEN next_start
                                ELSE IF next_start > acc.next_byte THEN next_start
                                ELSE acc.next_byte])

\* A ranges query that takes inner mode from the caller alone.
UseInner_of_caller(query, use_inner) == use_inner

\* use_inner || the pattern has the property range.inner
UseInner(query, use_inner) == use_inner \/ query.inner

\* The result for the match at node i: the main captures give start, end
\* and next byte, the start and end captures replace them.
MatchRange(query, tree, i, byte_offset, point_offset, use_inner) ==
    LET inner == UseInner(query, use_inner)
        lt == CHOOSE j \in Children(tree, i) : tree[j].kind = "lt"
        gt == CHOOSE j \in Children(tree, i) : tree[j].kind = "gt"
        main == MainSpan(tree, IF query.main = "ends" THEN <<lt, gt>> ELSE <<i>>, 1,
                         byte_offset, point_offset, None)
        first == NodeRange(tree, lt, byte_offset, point_offset)
        last == NodeRange(tree, gt, byte_offset, point_offset)
        started ==
            IF ~query.with_start THEN main.range
            ELSE IF inner
            THEN Range(first.end_byte, main.range.end_byte, first.end_point,
                       main.range.end_point)
            ELSE Range(first.start_byte, main.range.end_byte, first.start_point,
                       main.range.end_point)
    IN  IF ~query.with_end
        THEN [range |-> started, next_byte |-> main.next_byte]
        ELSE IF inner
        THEN [range |-> Range(started.start_byte, last.start_byte, started.start_point,
                              last.start_point),
              next_byte |-> last.start_byte]
        ELSE [range |-> Range(started.start_byte, last.end_byte, started.start_point,
                              last.end_point),
              next_byte |-> NextByte(tree, gt, byte_offset)]

\* The results of one entry of the snapshot.
EntryRanges(reg, entry, query_selector, byte_range, use_inner) ==
    LET found == LanguageRegistry_language(reg, entry.content.language)
        query == found.language[query_selector]
        tree == entry.content.tree
        matches == RangeMatches(query, tree, entry.byte_offset, entry.byte_range)
    IN  IF \/ byte_range.start >= entry.byte_range.end
           \/ byte_range.end <= entry.byte_range.start
        THEN <<>>
        ELSE IF entry.content.tag # "Parsed" THEN <<>>
        ELSE IF found.tag # "Some" THEN <<>>
        ELSE IF query.tag # "Some" THEN <<>>
        ELSE [k \in 1..Len(matches) |->
                 LET r == MatchRange(query, tree, matches[k], entry.byte_offset,
                                     entry.point_offset, use_inner)
                 IN  [language_id |-> entry.content.language, pattern_id |-> 0,
                      range |-> r.range, next_byte |-> r.next_byte]]

\* The loop over the entries from entry i on.
RECURSIVE CollectRangesFrom(_, _, _, _, _, _)
CollectRangesFrom(snap, reg, query_selector, byte_range, use_inner, i) ==
    IF i > Len(snap.entries) THEN <<>>
    ELSE EntryRanges(reg, snap.entries[i], query_selector, byte_range, use_inner)
            \o CollectRangesFrom(snap, reg, query_selector, byte_range, use_inner, i + 1)

collect_ranges(snap, reg, query_selector, byte_range, use_inner) ==
    CollectRangesFrom(snap, reg, query_selector, byte_range, use_inner, 1)

\* jni_utils.rs: the Point and the Range handed to the caller, in code
\* units.
PointDesc_to_java_object(point) == Point(point.row, point.column \div 2)

RangeDesc_to_java_object(range) ==
    Range(range.start_byte \div 2, range.end_byte \div 2,
          PointDesc_to_java_object(range.start_point),
          PointDesc_to_java_object(range.end_point))

(***************************************************************************)
(* ranges.rs: nativeGetFoldRanges                                          *)
(***************************************************************************)
\* Most rows of a document of line comments.
MaxRows == 4

\* A row of such a document holds two code units and a newline: blank, a
\* comment from column 0 or from column 1 to the end of the line, a comment
\* from column 0 that takes the newline in, or a node of another pattern.
RowKinds == {"blank", "c0", "c1", "c0n", "d0"}

LineDocs == UNION {[1..n -> RowKinds] : n \in 0..MaxRows}

RowText(kind) ==
    IF kind = "blank" THEN <<" ", " ", "\n">>
    ELSE IF kind = "c1" THEN <<" ", "#", "\n">>
    ELSE IF kind = "d0" THEN <<"x", "x", "\n">>
    ELSE <<"#", "#", "\n">>

RECURSIVE LineText(_)
LineText(rows) == IF rows = <<>> THEN <<>> ELSE RowText(Head(rows)) \o LineText(Tail(rows))

\* One element of what collect_ranges returns.
FoldResult(language_id, pattern_id, range, next_byte) ==
    [language_id |-> language_id, pattern_id |-> pattern_id, range |-> range,
     next_byte |-> next_byte]

\* The range of the node on row r (rows from 0).
LineNodeRange(kind, r) ==
    LET column == IF kind = "c1" THEN 2 ELSE 0
    IN  IF kind = "c0n"
        THEN Range(6 * r, 6 * (r + 1), Point(r, 0), Point(r + 1, 0))
        ELSE Range(6 * r + column, 6 * r + 4, Point(r, column), Point(r, 4))

\* collect_ranges on a one-entry snapshot of such a document, for a query
\* whose pattern 0 captures the comments and pattern 1 the other nodes as
\* the main capture: one result per node, in document order, next_byte the
\* start of the node's next sibling or, for the last node, its own end.
LineRanges(rows) ==
    LET nodes == SelectSeq([r \in 1..Len(rows) |-> r], LAMBDA r : rows[r] # "blank")
        range(k) == LineNodeRange(rows[nodes[k]], nodes[k] - 1)
    IN  [k \in 1..Len(nodes) |->
            FoldResult(0, IF rows[nodes[k]] = "d0" THEN 1 ELSE 0, range(k),
                       IF k < Len(nodes) THEN range(k + 1).start_byte
                       ELSE range(k).end_byte)]

\* The property settings of the patterns of a folds query, pattern by
\* pattern (pattern ids from 0).
FoldQueries ==
    {<<<<"fold.combined-lines">>, <<"fold.collapsed">>>>,
     <<<<"fold.collapsed", "fold.combined-lines">>, <<"fold.combined-lines">>>>,
     <<<<>>, <<"fold.combined-lines">>>>}

SomeIdx(idx) == [tag |-> "Some", idx |-> idx]

CombinedRange(pattern_id, range, collapsed_by_default, next_byte) ==
    [pattern_id |-> pattern_id, range |-> range,
     collapsed_by_default |-> collapsed_by_default, next_byte |-> next_byte]

\* query_cache.get(&language_id): the property settings of the folds
\* query of the language.
query_cache_get(query_cache, language_id) ==
    IF language_id = 0 THEN query_cache.properties ELSE query_cache.injected

\* The merge test without the test of the start columns.
MergeCondition_any_column(last, range) ==
    /\ last.next_byte = range.start_byte
    /\ \/ last.range.end_point.row + 1 = range.start_point.row
       \/ last.range.end_point.row = range.start_point.row

\* The test under fold.combined-lines: last is the combined range found
\* through last_combined_idx, range the result at hand.
MergeCondition(last, range) ==
    /\ last.next_byte = range.start_byte
    /\ range.start_point.column = last.range.start_point.column
    /\ \/ last.range.end_point.row + 1 = range.start_point.row
       \/ last.range.end_point.row = range.start_point.row

\* The merge that leaves the next-byte anchor of the earlier result.
MergeInto_keeps_next_byte(last, range, next_byte) ==
    [last EXCEPT !.range.end_byte = range.end_byte,
                 !.range.end_point = range.end_point]

\* The three assignments through last_range and last_next_byte.
MergeInto(last, range, next_byte) ==
    [last EXCEPT !.range.end_byte = range.end_byte,
                 !.range.end_point = range.end_point,
                 !.next_byte = next_byte]

FoldState(combined, last_idx) ==
    [combined_ranges |-> combined, last_combined_idx |-> last_idx]

\* The loop over the properties of the result's pattern, from property k
\* on, and the push that follows it unless the result was merged.
RECURSIVE CombineProperties(_, _, _, _, _)
CombineProperties(st, item, properties, k, collapsed_by_default) ==
    IF k > Len(properties)
    THEN FoldState(Append(st.combined_ranges,
                          CombinedRange(item.pattern_id, item.range, collapsed_by_default,
                                        item.next_byte)),
                   st.last_combined_idx)
    ELSE IF properties[k] = "fold.collapsed"
    THEN CombineProperties(st, item, properties, k + 1, TRUE)
    ELSE IF properties[k] = "fold.combined-lines"
    THEN LET idx == st.last_combined_idx[item.pattern_id]
             has == idx.tag = "Some" /\ idx.idx < Len(st.combined_ranges)
         IN  IF has /\ MergeCondition(st.combined_ranges[idx.idx + 1], item.range)
             THEN FoldState([st.combined_ranges EXCEPT
                                ![idx.idx + 1] = MergeInto(@, item.range, item.next_byte)],
                            st.last_combined_idx)
             ELSE CombineProperties(
                      FoldState(st.combined_ranges,
                                [st.last_combined_idx EXCEPT
                                    ![item.pattern_id] = SomeIdx(Len(st.combined_ranges))]),
                      item, properties, k + 1, collapsed_by_default)
    ELSE CombineProperties(st, item, properties, k + 1, collapsed_by_default)

\* The body of the loop over the results for one result.
CombineIteration(st, item, query) ==
    CombineProperties(st, item, query[item.pattern_id + 1], 1, FALSE)

\* The range as it goes into the FoldRange object: a range whose last
\* code unit is a newline is cut.
\* The loop that walks back from offset to the start of its line
\* (offsets from 0).
RECURSIVE line_start_offset(_, _)
line_start_offset(text_buffer, offset) ==
    LET new_offset == Max(offset - 1, 0)
    IN  IF text_buffer[new_offset + 1] = "\n" \/ new_offset = 0 THEN offset
        ELSE line_start_offset(text_buffer, new_offset)

TrimNewline(range, text_buffer) ==
    IF text_buffer[range.end_byte \div 2] = "\n"
    THEN LET end_byte == range.end_byte - 1
             line_end_offset == end_byte \div 2 - 1
             start == line_start_offset(text_buffer, line_end_offset)
         IN  Range(range.start_byte, end_byte, range.start_point,
                   Point(range.end_point.row - 1, Len(SubText(text_buffer, start, start))))
    ELSE range

(***************************************************************************)
(* State                                                                   *)
(***************************************************************************)
VARIABLES
    registry,          \* LANGUAGE_REGISTRY
    text,              \* the document the caller passes
    base_language_id,  \* the language id the caller passes to parse
    snapshot,          \* the snapshot the caller holds, or None
    edit,              \* the edit passed to parse_incremental
    parse_queue,       \* the BinaryHeap of the running build
    entries,           \* the entries pushed by the running build
    changed_ranges,    \* the changed ranges of the running build
    result,            \* what the build returned
    fn,                \* the running function
    pc,                \* where it is
    request,           \* the range passed to highlight_tokens_cover
    entry_stack,       \* SyntaxSnapshotTreeCursor::entry_stack
    parent_stack,      \* the ancestor stack of find_cover_start
    pending,           \* the captures the query cursor has not yet produced
    highlights,        \* the map of collect_highlights_for_range
    highlight_stack,   \* the highlight stack of the emit loop
    highlight_tokens,  \* the tokens emitted so far
    byte_start,        \* the cover start
    byte_current,      \* the position of the emit loop
    predicate,         \* the ContainsPredicate under check_predicate, or None
    predicates_source, \* the query AdditionalPredicates::parse is called on, or None
    additional_predicates, \* what it returned, or None
    captured_nodes,    \* the texts of mat.nodes_for_capture_index(capture_id)
    node_index,        \* how many of them the loop has taken
    verdict,           \* what check_predicate returned, or None
    query_source,      \* the query passed to nativeAddInjectionQuery, or None
    query_language_id, \* the language id passed with it
    exception,         \* the exception the call threw, or None
    fold_query,        \* the property settings of the folds query, or None
    text_buffer,       \* the document passed to nativeGetFoldRanges
    ranges,            \* what collect_ranges returned
    range_index,       \* how many of them the combining loop has taken
    combined_ranges,   \* combined_ranges of nativeGetFoldRanges
    last_combined_idx, \* its map from pattern id to index in combined_ranges
    fold_ranges,       \* the ranges of the FoldRange objects returned, or None
    indent_ranges,     \* the ranges nativeGetIndentRanges returned, or None
    collected,         \* what its call of collect_ranges returned, or None
    old_tree_passed,   \* old_tree of the last turn of parse_incremental's loop
    moved,             \* the last move of a SyntaxSnapshotTreeCursor, or None
    injections,        \* injections of the last turn of the build's loop, or None
    parsers_pool,      \* PARSERS_POOL.pool: the parsers not in use
    pool_lock,         \* the caller that holds the pool's mutex, or 0
    callers,           \* where each caller of with_parser is, and its parser
    parsers_created    \* how many parsers have been created

buildVars == <<parse_queue, entries, changed_ranges, result, fn, edit>>

hlVars == <<request, entry_stack, parent_stack, pending, highlights, highlight_stack,
            highlight_tokens, byte_start, byte_current>>

predVars == <<predicate, captured_nodes, node_index, verdict, predicates_source,
             additional_predicates>>

addVars == <<query_source, query_language_id, exception>>

foldVars == <<fold_query, text_buffer, ranges, range_index, combined_ranges,
              last_combined_idx, fold_ranges>>

rangeVars == <<indent_ranges, collected>>

loopVars == <<old_tree_passed, injections>>

cursorVars == <<moved>>

poolVars == <<parsers_pool, pool_lock, callers, parsers_created>>

libVars == <<predVars, addVars, foldVars, rangeVars, loopVars, cursorVars, poolVars, poolVars>>

vars == <<registry, text, base_language_id, snapshot, pc, buildVars, hlVars, libVars>>

NoEdit == [tag |-> "None"]

(***************************************************************************)
(* The registries and documents the builds run on                          *)
(***************************************************************************)
Registry(ok1, ok2, inj1, inj2, hl1, hl2) ==
    <<Language(0, "L1", ok1, inj1, hl1), Language(1, "L2", ok2, inj2, hl2)>>

\* (raw) @injection.content (#set! injection.language name)
InjectRaw(name) == InjectionQuery("raw", name, NoOffset)

\* (word) @injection.content (#set! injection.language name)
InjectWord(name) == InjectionQuery("word", name, NoOffset)

\* (block) @injection.content (#offset! @injection.content 1 -1)
\* (#set! injection.language name)
InjectBlock(name) == InjectionQuery("block", name, CaptureOffset(1, -1))

BuildRegistries ==
    {Registry(TRUE, TRUE, NoQuery, NoQuery, NoQuery, NoQuery),
     Registry(TRUE, TRUE, InjectWord("zz"), NoQuery, NoQuery, NoQuery),
     Registry(FALSE, TRUE, NoQuery, NoQuery, NoQuery, NoQuery),
     Registry(TRUE, FALSE, InjectWord("L2"), NoQuery, NoQuery, NoQuery),
     Registry(TRUE, TRUE, InjectWord("L2"), NoQuery, NoQuery, NoQuery)}
    \cup {Registry(TRUE, TRUE, inj1, inj2, NoQuery, NoQuery) :
              inj1 \in {InjectRaw("L2"), InjectBlock("L2")},
              inj2 \in {NoQuery, InjectRaw("L1")}}

\* The longest document an edit may produce: an insertion into a document
\* of MaxLen units.
MaxEditedLen == MaxLen + 1

\* The single edits: one unit inserted, deleted or replaced.
InputEdit(p, del, ins) ==
    [start_byte |-> 2 * p, old_end_byte |-> 2 * (p + del),
     new_end_byte |-> 2 * (p + Len(ins)),
     start_position |-> Point(0, 2 * p),
     old_end_position |-> Point(0, 2 * (p + del)),
     new_end_position |-> Point(0, 2 * (p + Len(ins)))]

EditedText(txt, p, del, ins) ==
    SubText(txt, 0, p) \o ins \o SubText(txt, p + del, Len(txt))

HlInit ==
    /\ request = None
    /\ entry_stack = <<>>
    /\ parent_stack = <<>>
    /\ pending = <<>>
    /\ highlights = {}
    /\ highlight_stack = <<>>
    /\ highlight_tokens = <<>>
    /\ byte_start = 0
    /\ byte_current = 0

PredInit ==
    /\ predicate = None
    /\ captured_nodes = <<>>
    /\ node_index = 0
    /\ verdict = None
    /\ predicates_source = None
    /\ additional_predicates = None

AddInit ==
    /\ query_source = None
    /\ query_language_id = 0
    /\ exception = None

PatternIds == {0, 1}

FoldInit ==
    /\ fold_query = None
    /\ text_buffer = <<>>
    /\ ranges = <<>>
    /\ range_index = 0
    /\ combined_ranges = <<>>
    /\ last_combined_idx = [p \in PatternIds |-> None]
    /\ fold_ranges = None

RangeInit == indent_ranges = None /\ collected = None

LoopInit == old_tree_passed = None /\ injections = None

CursorInit == moved = None

\* The threads that call with_parser, and the calls each of them makes.
MaxCallers == 3
MaxCalls == 2

Callers == 1..MaxCallers

\* A caller of with_parser: where it is, the parser it holds (None when it
\* holds none) and the calls it has returned from.
Caller(at, parser, returned) == [pc |-> at, parser |-> parser, returned |-> returned]

\* LazyLock::new(ParsersPool::default): an empty pool.
PoolInit ==
    /\ parsers_pool = <<>>
    /\ pool_lock = 0
    /\ callers = [t \in Callers |-> Caller("idle", None, 0)]
    /\ parsers_created = 0

LibInit == PredInit /\ AddInit /\ FoldInit /\ RangeInit /\ LoopInit /\ CursorInit /\ PoolInit

BuildInit ==
    /\ snapshot = None
    /\ edit = NoEdit
    /\ parse_queue = <<>>
    /\ entries = <<>>
    /\ changed_ranges = <<>>
    /\ result = None
    /\ fn = "none"
    /\ pc = "idle"

Init ==
    /\ registry \in BuildRegistries
    /\ text \in Texts
    /\ base_language_id \in {0, 7}
    /\ base_language_id = 7 => registry = Registry(TRUE, TRUE, NoQuery, NoQuery, NoQuery, NoQuery)
    /\ BuildInit
    /\ HlInit
    /\ LibInit

(***************************************************************************)
(* The builder                                                             *)
(***************************************************************************)
\* The state after one loop iteration that ended in st.
Continue(st, running) ==
    /\ parse_queue' = st.parse_queue
    /\ injections' = st.injections
    /\ entries' = st.entries
    /\ changed_ranges' = st.changed_ranges
    /\ result' = None
    /\ pc' = IF st.status = "loop" THEN running
             ELSE IF st.status = "none" THEN "done" ELSE "panic"

\* nativeParse -> SyntaxSnapshot::parse: the root command is queued.
\* The depth down to which a build is followed.
MaxDepth == 4

CallParse ==
    /\ pc = "idle"
    /\ snapshot = None
    /\ parse_queue' = <<RootCommand(base_language_id, text)>>
    /\ entries' = <<>>
    /\ changed_ranges' = <<>>
    /\ result' = None
    /\ fn' = "parse"
    /\ pc' = "parse"
    /\ UNCHANGED <<libVars, registry, text, base_language_id, snapshot, edit, hlVars>>

ParseLoop ==
    /\ pc = "parse"
    /\ parse_queue # <<>>
    /\ \E k \in PopCandidates(parse_queue) :
          /\ parse_queue[k].depth <= MaxDepth
          /\ Continue(ParseIteration(BuildState(parse_queue, entries, changed_ranges, "loop"),
                                     k, text, registry), "parse")
    /\ UNCHANGED <<predVars, addVars, foldVars, rangeVars, cursorVars, poolVars, old_tree_passed,
                   registry, text, base_language_id, snapshot, fn, edit, hlVars>>

ParseDone ==
    /\ pc = "parse"
    /\ parse_queue = <<>>
    /\ result' = ParseReturn(entries, changed_ranges)
    /\ pc' = "done"
    /\ UNCHANGED <<libVars, registry, text, base_language_id, snapshot, parse_queue, entries,
                   changed_ranges, fn, edit, hlVars>>

\* SyntaxSnapshot::parse_incremental on the held snapshot, the edited text
\* and the edit.
CallParseIncremental ==
    /\ pc = "idle"
    /\ snapshot # None
    /\ \E p \in 0..Len(text), del \in 0..1, ins \in {<<>>} \cup {<<c>> : c \in Chars} :
          /\ p + del <= Len(text)
          /\ del + Len(ins) > 0
          /\ Len(text) - del + Len(ins) <= MaxEditedLen
          /\ text' = EditedText(text, p, del, ins)
          /\ edit' = InputEdit(p, del, ins)
          /\ changed_ranges' = <<EditRange(InputEdit(p, del, ins))>>
          /\ parse_queue' = <<IncrementalRootCommand(snapshot, EditedText(text, p, del, ins))>>
    /\ entries' = <<>>
    /\ result' = None
    /\ fn' = "parse_incremental"
    /\ pc' = "parse_incremental"
    /\ UNCHANGED <<libVars, registry, base_language_id, snapshot, hlVars>>

ParseIncrementalLoop ==
    /\ pc = "parse_incremental"
    /\ parse_queue # <<>>
    /\ \E k \in PopCandidates(parse_queue) :
          /\ parse_queue[k].depth <= MaxDepth
          /\ Continue(ParseIncrementalIteration(
                          BuildState(parse_queue, entries, changed_ranges, "loop"),
                          k, text, registry, snapshot, edit), "parse_incremental")
          /\ snapshot' = OldSnapshot(parse_queue[k], registry, snapshot, edit)
          /\ old_tree_passed' = LoopOldTree(parse_queue[k], registry, snapshot, edit)
    /\ UNCHANGED <<predVars, addVars, foldVars, rangeVars, cursorVars, poolVars, registry, text, base_language_id,
                   fn, edit, hlVars>>

ParseIncrementalDone ==
    /\ pc = "parse_incremental"
    /\ parse_queue = <<>>
    /\ result' = ParseReturn(entries, changed_ranges)
    /\ pc' = "done"
    /\ UNCHANGED <<libVars, registry, text, base_language_id, snapshot, parse_queue, entries,
                   changed_ranges, fn, edit, hlVars>>

\* The caller takes the returned snapshot in place of the one it held.
Release ==
    /\ pc = "done"
    /\ snapshot' = IF result.tag = "Some" THEN result.snapshot ELSE None
    /\ result.tag = "Some" \/ snapshot # None
    /\ parse_queue' = <<>>
    /\ entries' = <<>>
    /\ changed_ranges' = <<>>
    /\ result' = None
    /\ edit' = NoEdit
    /\ old_tree_passed' = None
    /\ injections' = None
    /\ fn' = "none"
    /\ pc' = "idle"
    /\ UNCHANGED <<predVars, addVars, foldVars, rangeVars, cursorVars, poolVars, registry, text, base_language_id,
                   hlVars>>

Next ==
    \/ CallParse
    \/ ParseLoop
    \/ ParseDone
    \/ CallParseIncremental
    \/ ParseIncrementalLoop
    \/ ParseIncrementalDone
    \/ Release

Spec == Init /\ [][Next]_vars

(***************************************************************************)
(* The highlighting lexer on a built snapshot                              *)
(***************************************************************************)
AllCaptures == {0, 1}

\* (word) @c0 (word) @c1
HlWordTwice == HighlightsQuery(<<Pattern("word", 0), Pattern("word", 1)>>, AllCaptures)

\* (block) @c0 (word) @c1
HlBlockWord == HighlightsQuery(<<Pattern("block", 0), Pattern("word", 1)>>, AllCaptures)

\* (block) @c0 (raw) @c1
HlBlockRaw == HighlightsQuery(<<Pattern("block", 0), Pattern("raw", 1)>>, AllCaptures)

\* (raw) @c0 (word) @c1
HlRawWord == HighlightsQuery(<<Pattern("raw", 0), Pattern("word", 1)>>, AllCaptures)

\* (kind) @c
HlOne(kind, capture) == HighlightsQuery(<<Pattern(kind, capture)>>, AllCaptures)

HlRegistries ==
    {Registry(TRUE, TRUE, NoQuery, NoQuery, HlWordTwice, NoQuery),
     Registry(TRUE, TRUE, NoQuery, NoQuery, HlBlockWord, NoQuery),
     Registry(TRUE, TRUE, InjectRaw("zz"), NoQuery, HlBlockRaw, NoQuery),
     Registry(TRUE, TRUE, InjectRaw("zz"), NoQuery, HlOne("word", 0), NoQuery),
     Registry(TRUE, TRUE, InjectRaw("L2"), NoQuery, HlBlockRaw, HlOne("word", 1)),
     Registry(TRUE, TRUE, InjectRaw("L2"), InjectRaw("L1"), HlOne("block", 0), HlOne("doc", 1)),
     Registry(TRUE, TRUE, InjectBlock("L2"), NoQuery, HlOne("word", 0), HlOne("word", 1)),
     Registry(TRUE, TRUE, InjectRaw("L1"), NoQuery, HlRawWord, NoQuery),
     Registry(TRUE, TRUE, InjectWord("L2"), NoQuery, HlOne("err", 0), NoQuery)}

\* The caller holds the snapshot parse built for the text.
InitHl ==
    /\ registry \in HlRegistries
    /\ text \in Texts
    /\ base_language_id = 0
    /\ snapshot = IF parse(0, text, registry).tag = "Some"
                  THEN parse(0, text, registry).snapshot ELSE None
    /\ edit = NoEdit
    /\ parse_queue = <<>>
    /\ entries = <<>>
    /\ changed_ranges = <<>>
    /\ result = None
    /\ fn = "none"
    /\ pc = "idle"
    /\ HlInit
    /\ LibInit

\* The captures still to come, entry by entry.
PendingCaptures(reg, snap, byte_range) ==
    LET order == IntersectingEntries(snap, byte_range)
        all == [i \in 1..Len(order) |-> EntryCaptures(reg, snap, order[i], byte_range)]
    IN  SelectSeq(all, LAMBDA cs : cs # {})

\* The query cursor yields the captures of an entry in document order, and
\* the captures of one node in an order of its own.
NextCaptures(cs) ==
    {c \in cs : \A d \in cs :
        \/ c.range.start < d.range.start
        \/ c.range.start = d.range.start /\ c.range.end >= d.range.end}

\* highlight_tokens_cover up to the captures loop: find_cover_start and the
\* set-up of collect_highlights_for_range.
CallHighlight ==
    /\ pc = "idle"
    /\ snapshot # None
    /\ \E start \in 0..Len(text), end \in 0..Len(text) :
          /\ start < end
          /\ LET cover == find_cover_start(snapshot, start * 2)
             IN  /\ request' = [start |-> start, end |-> end]
                 /\ byte_start' = cover.cover_start_byte
                 /\ byte_current' = cover.cover_start_byte
                 /\ parent_stack' = cover.parent_stack
                 /\ entry_stack' = cover.entry_stack
                 /\ pending' = PendingCaptures(registry, snapshot,
                                               ByteRange(cover.cover_start_byte, end * 2))
    /\ highlights' = {}
    /\ highlight_stack' = <<>>
    /\ highlight_tokens' = <<>>
    /\ fn' = "highlight_tokens_cover"
    /\ pc' = "collect"
    /\ UNCHANGED <<libVars, registry, text, base_language_id, snapshot, parse_queue, entries,
                   changed_ranges, result, edit>>

\* One capture through the body of the captures loop.
CollectLoop ==
    /\ pc = "collect"
    /\ pending # <<>>
    /\ \E c \in NextCaptures(pending[1]) :
          /\ highlights' = InsertHighlight(registry, highlights, c)
          /\ pending' = IF pending[1] = {c} THEN Tail(pending)
                        ELSE [pending EXCEPT ![1] = @ \ {c}]
    /\ UNCHANGED <<libVars, registry, text, base_language_id, snapshot, pc, buildVars, request,
                   entry_stack, parent_stack, highlight_stack, highlight_tokens,
                   byte_start, byte_current>>

\* The map is returned and the highlight stack is seeded.
CollectDone ==
    /\ pc = "collect"
    /\ pending = <<>>
    /\ highlight_stack' = SeedHighlightStack(parent_stack, highlights)
    /\ pc' = "emit"
    /\ UNCHANGED <<libVars, registry, text, base_language_id, snapshot, buildVars, request,
                   entry_stack, parent_stack, pending, highlights, highlight_tokens,
                   byte_start, byte_current>>

EmitLoop ==
    /\ pc = "emit"
    /\ byte_current < request.end * 2
    /\ LET st == EmitIteration(snapshot, highlights,
                               EmitState(entry_stack, highlight_stack, highlight_tokens,
                                         byte_current, "loop"))
       IN  /\ entry_stack' = st.entry_stack
           /\ highlight_stack' = st.highlight_stack
           /\ highlight_tokens' = st.highlight_tokens
           /\ byte_current' = st.byte_current
           /\ pc' = IF st.status = "break" THEN "returned" ELSE "emit"
    /\ UNCHANGED <<libVars, registry, text, base_language_id, snapshot, buildVars, request,
                   parent_stack, pending, highlights, byte_start>>

\* (byte_start, highlight_tokens) is returned.
EmitDone ==
    /\ pc = "emit"
    /\ byte_current >= request.end * 2
    /\ pc' = "returned"
    /\ UNCHANGED <<libVars, registry, text, base_language_id, snapshot, buildVars, hlVars>>

\* The caller takes the tokens.
HlRelease ==
    /\ pc = "returned"
    /\ request' = None
    /\ entry_stack' = <<>>
    /\ parent_stack' = <<>>
    /\ pending' = <<>>
    /\ highlights' = {}
    /\ highlight_stack' = <<>>
    /\ highlight_tokens' = <<>>
    /\ byte_start' = 0
    /\ byte_current' = 0
    /\ fn' = "none"
    /\ pc' = "idle"
    /\ UNCHANGED <<libVars, registry, text, base_language_id, snapshot, parse_queue, entries,
                   changed_ranges, result, edit>>

NextHl ==
    \/ CallHighlight
    \/ CollectLoop
    \/ CollectDone
    \/ EmitLoop
    \/ EmitDone
    \/ HlRelease

SpecHl == InitHl /\ [][NextHl]_vars

\* ENABLED <<EmitLoop>>_vars: the condition of the while loop of
\* highlight_tokens_cover (a turn that changed nothing would be taken again
\* and again, so it counts as a turn the loop can take).
EmitLoopEnabled == pc = "emit" /\ byte_current < request.end * 2

\* highlight_tokens_cover run without suspension: the emit loop goes on
\* while its condition holds (weak fairness of EmitLoop, with its ENABLED
\* written out), and the function returns when it does not.
FairSpecHl ==
    /\ InitHl
    /\ [][NextHl]_vars
    /\ ([]<>(~EmitLoopEnabled) \/ []<><<EmitLoop>>_vars)
    /\ WF_vars(EmitDone)


(***************************************************************************)
(* A contains-family predicate checked on one match                        *)
(***************************************************************************)
InitPredicate ==
    /\ registry = Registry(TRUE, TRUE, NoQuery, NoQuery, NoQuery, NoQuery)
    /\ text = <<>>
    /\ base_language_id = 0
    /\ BuildInit
    /\ HlInit
    /\ LibInit

\* satisfies_predicates calls check_predicate on a match.
CallCheckPredicate ==
    /\ pc = "idle"
    /\ \E operator \in ContainsOperators, pattern \in Literals,
          nodes \in UNION {[1..n -> NodeTexts] : n \in 0..MaxInstances} :
          /\ predicate' = parse_predicate(operator, pattern)
          /\ captured_nodes' = nodes
    /\ node_index' = 0
    /\ verdict' = None
    /\ fn' = "check_predicate"
    /\ pc' = "check_predicate"
    /\ UNCHANGED <<predicates_source, additional_predicates, addVars, foldVars, rangeVars, loopVars, cursorVars, poolVars, registry, text, base_language_id,
                   snapshot, parse_queue, entries, changed_ranges, result, edit, hlVars>>

\* One node through the loop body.
CheckLoop ==
    /\ pc = "check_predicate"
    /\ node_index < Len(captured_nodes)
    /\ LET r == CheckNode(predicate, captured_nodes[node_index + 1])
       IN  /\ verdict' = IF r = "next" THEN None ELSE [tag |-> "Some", value |-> r = "true"]
           /\ pc' = IF r = "next" THEN "check_predicate" ELSE "checked"
    /\ node_index' = node_index + 1
    /\ UNCHANGED <<predicates_source, additional_predicates, addVars, foldVars, rangeVars, loopVars, cursorVars, poolVars, registry, text, base_language_id,
                   snapshot, buildVars, hlVars, predicate, captured_nodes>>

\* The loop is over: match_all is returned.
CheckReturn ==
    /\ pc = "check_predicate"
    /\ node_index = Len(captured_nodes)
    /\ verdict' = [tag |-> "Some", value |-> predicate.match_all]
    /\ pc' = "checked"
    /\ UNCHANGED <<predicates_source, additional_predicates, addVars, foldVars, rangeVars, loopVars, cursorVars, poolVars, registry, text, base_language_id,
                   snapshot, buildVars, hlVars, predicate, captured_nodes, node_index>>

CheckRelease ==
    /\ pc = "checked"
    /\ predicate' = None
    /\ captured_nodes' = <<>>
    /\ node_index' = 0
    /\ verdict' = None
    /\ fn' = "none"
    /\ pc' = "idle"
    /\ UNCHANGED <<predicates_source, additional_predicates, addVars, foldVars, rangeVars, loopVars, cursorVars, poolVars, registry, text, base_language_id,
                   snapshot, parse_queue, entries, changed_ranges, result, edit, hlVars>>

\* Most patterns of a query source, and most predicates of a pattern.
MaxPatterns == 2
MaxPredicates == 2

\* The predicates of the sources: an operator of the family or another
\* one, with arguments that are right, too few, too many, or of the wrong
\* sort.
SourcePredicates ==
    {QueryPredicate(operator, args) :
        operator \in {"contains?", "any-not-contains?", "offset!"},
        args \in {<<ArgCapture(0), ArgString(<<"a">>)>>,
                  <<ArgCapture(0)>>,
                  <<ArgCapture(0), ArgString(<<"a">>), ArgString(<<"<">>)>>,
                  <<ArgString(<<"a">>), ArgString(<<"a">>)>>,
                  <<ArgCapture(0), ArgCapture(0)>>}}

SourcePatterns ==
    {[before |-> before, predicates |-> predicates] :
        before \in 0..1,
        predicates \in UNION {[1..n -> SourcePredicates] : n \in 0..MaxPredicates}}

\* parse_query calls AdditionalPredicates::parse on a compiled query.
CallParsePredicates ==
    /\ pc = "idle"
    /\ \E patterns \in UNION {[1..n -> SourcePatterns] : n \in 1..MaxPatterns} :
          /\ predicates_source' = [tag |-> "Some", patterns |-> patterns]
          /\ additional_predicates' = AdditionalPredicates_parse(patterns)
    /\ fn' = "AdditionalPredicates::parse"
    /\ pc' = "predicates_parsed"
    /\ UNCHANGED <<predicate, captured_nodes, node_index, verdict, addVars, foldVars,
                   rangeVars, loopVars, cursorVars, poolVars, registry, text,
                   base_language_id, snapshot, parse_queue, entries, changed_ranges, result,
                   edit, hlVars>>

\* The caller stores the query or reports the error.
ParsePredicatesRelease ==
    /\ pc = "predicates_parsed"
    /\ predicates_source' = None
    /\ additional_predicates' = None
    /\ fn' = "none"
    /\ pc' = "idle"
    /\ UNCHANGED <<predicate, captured_nodes, node_index, verdict, addVars, foldVars,
                   rangeVars, loopVars, cursorVars, poolVars, registry, text,
                   base_language_id, snapshot, parse_queue, entries, changed_ranges, result,
                   edit, hlVars>>

NextParsePredicates ==
    \/ CallParsePredicates
    \/ ParsePredicatesRelease

SpecParsePredicates == InitPredicate /\ [][NextParsePredicates]_vars

NextPredicate ==
    \/ CallCheckPredicate
    \/ CheckLoop
    \/ CheckReturn
    \/ CheckRelease

SpecPredicate == InitPredicate /\ [][NextPredicate]_vars

(***************************************************************************)
(* An injection query registered for a language, and a parse after it      *)
(***************************************************************************)
InjectionCaptureLists ==
    {<<"injection.content">>,
     <<"injection.content", "injection.language">>,
     <<"injection.content", "injection.mimetype">>,
     <<"injection.language", "injection.content", "injection.mimetype">>,
     <<"injection.content", "injection.content">>,
     <<"injection.language">>,
     <<"name">>}

QuerySources ==
    {QuerySource(kind, captures, settings, NoOffset) :
        kind \in {"word", "block"},
        captures \in InjectionCaptureLists,
        settings \in {<<>>, <<"L2">>, <<"L2", "zz">>}}

InitInjection ==
    /\ registry \in {Registry(TRUE, TRUE, NoQuery, NoQuery, NoQuery, NoQuery),
                      Registry(TRUE, TRUE, InjectWord("L2"), NoQuery, NoQuery, NoQuery)}
    /\ text \in Texts
    /\ base_language_id = 0
    /\ BuildInit
    /\ HlInit
    /\ LibInit

\* nativeAddInjectionQuery is called with a language id and a query.
CallAddInjectionQuery ==
    /\ pc = "idle"
    /\ snapshot = None
    /\ query_source = None
    /\ \E language_id \in {0, 7}, source \in QuerySources :
          /\ query_language_id' = language_id
          /\ query_source' = [tag |-> "Some", source |-> source]
    /\ exception' = None
    /\ fn' = "nativeAddInjectionQuery"
    /\ pc' = "add_injection_query"
    /\ UNCHANGED <<predVars, foldVars, rangeVars, loopVars, cursorVars, poolVars, registry, text, base_language_id,
                   snapshot, parse_queue, entries, changed_ranges, result, edit, hlVars>>

\* The language's parser_info with the new injection query.
StoreInjectionQuery(reg, language_id, query) ==
    [i \in 1..Len(reg) |->
        IF reg[i].id = language_id THEN [reg[i] EXCEPT !.injections_query = query]
        ELSE reg[i]]

\* inner of nativeAddInjectionQuery: with_language, InjectionQuery::new,
\* the write of parser_info; an error is thrown as a RuntimeException.
AddInjectionQueryReturn ==
    /\ pc = "add_injection_query"
    /\ LET found == LanguageRegistry_language(registry, query_language_id)
           made == InjectionQuery_new(query_source.source)
       IN  IF found.tag # "Some"
           THEN /\ exception' = [tag |-> "Some", error |-> "InvalidLanguageId"]
                /\ registry' = registry
           ELSE IF made.tag = "Err"
           THEN /\ exception' = [tag |-> "Some", error |-> made.error]
                /\ registry' = registry
           ELSE /\ exception' = None
                /\ registry' = StoreInjectionQuery(registry, query_language_id, made.query)
    /\ fn' = "none"
    /\ pc' = "idle"
    /\ UNCHANGED <<predVars, foldVars, rangeVars, loopVars, cursorVars, poolVars, query_source, query_language_id, text,
                   base_language_id, snapshot, parse_queue, entries, changed_ranges, result,
                   edit, hlVars>>

NextInjection ==
    \/ CallAddInjectionQuery
    \/ AddInjectionQueryReturn
    \/ CallParse
    \/ ParseLoop
    \/ ParseDone

SpecInjection == InitInjection /\ [][NextInjection]_vars

(***************************************************************************)
(* Specification of the builder over catalogs with nested injections       *)
(***************************************************************************)
\* Words of L1 are L2 and words of L2 are of an unknown language; raw text
\* of either language is of the other; words of L1 are L1 again.
NestRegistries ==
    {Registry(TRUE, TRUE, InjectWord("L2"), InjectWord("zz"), NoQuery, NoQuery),
     Registry(TRUE, TRUE, InjectRaw("L2"), InjectRaw("L1"), NoQuery, NoQuery),
     Registry(TRUE, TRUE, InjectWord("L1"), NoQuery, NoQuery, NoQuery)}

InitNest ==
    /\ registry \in NestRegistries
    /\ text \in Texts
    /\ base_language_id = 0
    /\ BuildInit
    /\ HlInit
    /\ LibInit

SpecNest == InitNest /\ [][Next]_vars

NextNestParse ==
    \/ CallParse
    \/ ParseLoop
    \/ ParseDone

\* ENABLED <<ParseLoop>>_vars: the loop of SyntaxSnapshot::parse has a command
\* to take (every turn of the loop pushes an entry, so it changes the state).
ParseLoopEnabled ==
    /\ pc = "parse"
    /\ parse_queue # <<>>
    /\ \E k \in PopCandidates(parse_queue) : parse_queue[k].depth <= MaxDepth

\* SyntaxSnapshot::parse alone, run without suspension: the loop goes on while
\* the queue holds a command (weak fairness of ParseLoop, with its ENABLED
\* written out), and the function returns when it does not.
FairSpecNest ==
    /\ InitNest
    /\ [][NextNestParse]_vars
    /\ ([]<>(~ParseLoopEnabled) \/ []<><<ParseLoop>>_vars)
    /\ WF_vars(ParseDone)

(***************************************************************************)
(* Specification of a SyntaxSnapshotTreeCursor moved by its caller         *)
(***************************************************************************)
\* One move: the operation, its byte argument, the stack it was called on
\* and whether it reported success (true, or Some(..)).
Move(op, index, from, ret) == [op |-> op, index |-> index, from |-> from, ret |-> ret]

\* The stack after a move and the record of the move.
CursorMoved(op, index, to) ==
    /\ entry_stack' = IF to.tag = "Some" THEN to.stack ELSE entry_stack
    /\ moved' = Move(op, index, entry_stack, to.tag = "Some")
    /\ UNCHANGED <<predVars, addVars, foldVars, rangeVars, loopVars, poolVars, registry, text,
                   base_language_id, snapshot, pc, buildVars, request, parent_stack, pending,
                   highlights, highlight_stack, highlight_tokens, byte_start, byte_current>>

\* SyntaxSnapshotTreeCursor::walk on the held snapshot.
CursorWalk ==
    /\ pc = "idle"
    /\ snapshot # None
    /\ entry_stack' = walk(snapshot)
    /\ moved' = Move("walk", 0, <<>>, TRUE)
    /\ pc' = "cursor"
    /\ UNCHANGED <<predVars, addVars, foldVars, rangeVars, loopVars, poolVars, registry, text,
                   base_language_id, snapshot, buildVars, request, parent_stack, pending,
                   highlights, highlight_stack, highlight_tokens, byte_start, byte_current>>

CursorGotoFirstChildForByte ==
    /\ pc = "cursor"
    /\ \E unit \in 0..Len(text) :
          CursorMoved("goto_first_child_for_byte", unit * 2,
                      goto_first_child_for_byte(snapshot, entry_stack, unit * 2))

CursorGotoFirstChild ==
    /\ pc = "cursor"
    /\ CursorMoved("goto_first_child", 0, goto_first_child(snapshot, entry_stack))

CursorGotoPreviousSibling ==
    /\ pc = "cursor"
    /\ CursorMoved("goto_previous_sibling", 0, goto_previous_sibling(snapshot, entry_stack))

CursorGotoNextSibling ==
    /\ pc = "cursor"
    /\ CursorMoved("goto_next_sibling", 0, goto_next_sibling(snapshot, entry_stack))

CursorGotoParent ==
    /\ pc = "cursor"
    /\ CursorMoved("goto_parent", 0, goto_parent(snapshot, entry_stack))

NextCursor ==
    \/ CursorWalk
    \/ CursorGotoFirstChildForByte
    \/ CursorGotoFirstChild
    \/ CursorGotoPreviousSibling
    \/ CursorGotoNextSibling
    \/ CursorGotoParent

SpecCursor == InitHl /\ [][NextCursor]_vars

(***************************************************************************)
(* Specification of the builder over injection queries of two patterns     *)
(***************************************************************************)
\* The pattern (kind) with the captures and settings given, no offset.
OnKind(kind, captures, settings) == QuerySource(kind, captures, settings, NoOffset)

\* The compiled query of two patterns.
InjectionQuery2(first, second) == InjectionQuery_new(TwoPatterns(first, second)).query

\* Injection queries of L1: two patterns on the same node with different
\* languages; a pattern without content capture before one with it; a
\* pattern with neither a set language nor a language capture before one
\* that takes the language from the node's text; two patterns on nodes of
\* different kinds.
PatternQueries ==
    {InjectionQuery2(OnKind("word", <<"injection.content">>, <<"L2">>),
                     OnKind("word", <<"injection.content">>, <<"zz">>)),
     InjectionQuery2(OnKind("word", <<"injection.language">>, <<>>),
                     OnKind("block", <<"injection.content">>, <<"L2">>)),
     InjectionQuery2(OnKind("word", <<"injection.content">>, <<>>),
                     OnKind("block", <<"injection.content", "injection.language">>, <<>>)),
     InjectionQuery2(OnKind("block", <<"injection.content">>, <<"L2">>),
                     OnKind("word", <<"injection.content">>, <<"L2">>))}

InitPatterns ==
    /\ registry \in {Registry(TRUE, TRUE, q, NoQuery, NoQuery, NoQuery) : q \in PatternQueries}
    /\ text \in Texts
    /\ base_language_id = 0
    /\ BuildInit
    /\ HlInit
    /\ LibInit

SpecPatterns == InitPatterns /\ [][NextNestParse]_vars

(***************************************************************************)
(* Specification of the builder over injections named by the text          *)
(***************************************************************************)
\* Injection queries of L1 on its words: the word is the content and the
\* mimetype, the content and the name, or all three with the mimetype or
\* the name written last.
MimeQueries ==
    {InjectionQuery_new(OnKind("word", captures, <<>>)).query :
        captures \in {<<"injection.content", "injection.mimetype">>,
                      <<"injection.content", "injection.language">>,
                      <<"injection.language", "injection.content", "injection.mimetype">>,
                      <<"injection.mimetype", "injection.content", "injection.language">>}}

\* The second language of the catalog is registered under the name "a".
MimeRegistries ==
    {<<Language(0, "L1", TRUE, q, NoQuery), Language(1, "a", TRUE, NoQuery, NoQuery)>> :
        q \in MimeQueries}

InitMime ==
    /\ registry \in MimeRegistries
    /\ text \in Texts
    /\ base_language_id = 0
    /\ BuildInit
    /\ HlInit
    /\ LibInit

SpecMime == InitMime /\ [][NextNestParse]_vars

(***************************************************************************)
(* Specification of the lexer over queries with captures that are not      *)
(* visible                                                                 *)
(***************************************************************************)
\* str::starts_with on a name written as the sequence of its characters.
starts_with(name, ch) == name # <<>> /\ name[1] = ch

\* A capture mask that holds every capture.
capture_mask_of_all(names_of_query) == {idx - 1 : idx \in 1..Len(names_of_query)}

\* The capture mask of nativeAddHighlightQuery: the indexes of the names
\* that do not start with '_'.
capture_mask(names_of_query) ==
    {idx - 1 : idx \in {i \in 1..Len(names_of_query) : ~starts_with(names_of_query[i], "_")}}

\* The highlights query nativeAddHighlightQuery stores for patterns whose
\* captures have these names; the names stay with the compiled query.
AddHighlightQuery(patterns, names_of_query) ==
    [tag |-> "Some", patterns |-> patterns, visible |-> capture_mask(names_of_query),
     capture_names |-> names_of_query]

\* The names of captures 0 and 1.
CaptureNameLists ==
    {<<<<"_", "a">>, <<"b">>>>,
     <<<<"b">>, <<"_", "a">>>>,
     <<<<"b", "_">>, <<"_">>>>,
     <<<<"b">>, <<"b", "_">>>>,
     <<<<"_", "a">>, <<"_">>>>}

\* Two patterns on the words of the base language, or a pattern on its
\* blocks and one on their raw text, into which a language with a pattern
\* on its words is injected.
MaskRegistries ==
    {Registry(TRUE, TRUE, NoQuery, NoQuery,
              AddHighlightQuery(<<Pattern("word", 0), Pattern("word", 1)>>, names),
              NoQuery) : names \in CaptureNameLists}
    \cup {Registry(TRUE, TRUE, InjectRaw("L2"), NoQuery,
                   AddHighlightQuery(<<Pattern("block", 0), Pattern("raw", 1)>>, names),
                   AddHighlightQuery(<<Pattern("word", 1)>>, names)) :
              names \in CaptureNameLists}

InitMask ==
    /\ registry \in MaskRegistries
    /\ text \in Texts
    /\ base_language_id = 0
    /\ snapshot = IF parse(0, text, registry).tag = "Some"
                  THEN parse(0, text, registry).snapshot ELSE None
    /\ edit = NoEdit
    /\ parse_queue = <<>>
    /\ entries = <<>>
    /\ changed_ranges = <<>>
    /\ result = None
    /\ fn = "none"
    /\ pc = "idle"
    /\ HlInit
    /\ LibInit

SpecMask == InitMask /\ [][NextHl]_vars

(***************************************************************************)
(* Specification of ParsersPool::with_parser under concurrent callers      *)
(***************************************************************************)
\* A ts::Parser: which one it is, and whether it is as reset leaves it.
Parser(id, clean) == [tag |-> "Some", id |-> id, clean |-> clean]

\* guard.pop() that leaves the parser in the vector.
TakeParser_leaves_in_pool(pool, created) ==
    IF pool = <<>>
    THEN [parser |-> Parser(created + 1, TRUE), pool |-> pool, created |-> created + 1]
    ELSE [parser |-> pool[Len(pool)], pool |-> pool, created |-> created]

\* guard.pop().unwrap_or_default(): the last parser of the vector, or a
\* new one.
TakeParser(pool, created) ==
    IF pool = <<>>
    THEN [parser |-> Parser(created + 1, TRUE), pool |-> pool, created |-> created + 1]
    ELSE [parser |-> pool[Len(pool)], pool |-> SubSeq(pool, 1, Len(pool) - 1),
          created |-> created]

PoolUnchanged ==
    UNCHANGED <<predVars, addVars, foldVars, rangeVars, loopVars, cursorVars, registry, text,
                base_language_id, snapshot, pc, buildVars, hlVars>>

\* self.pool.lock().unwrap() of the first block.
PoolLockToTake(t) ==
    /\ callers[t].pc = "idle"
    /\ callers[t].returned < MaxCalls
    /\ pool_lock = 0
    /\ pool_lock' = t
    /\ callers' = [callers EXCEPT ![t].pc = "take"]
    /\ UNCHANGED <<parsers_pool, parsers_created>>
    /\ PoolUnchanged

\* guard.pop().unwrap_or_default(), and the guard dropped at the end of
\* the block.
PoolTake(t) ==
    /\ callers[t].pc = "take"
    /\ LET taken == TakeParser(parsers_pool, parsers_created)
       IN  /\ parsers_pool' = taken.pool
           /\ parsers_created' = taken.created
           /\ callers' = [callers EXCEPT ![t].pc = "func", ![t].parser = taken.parser]
    /\ pool_lock' = 0
    /\ PoolUnchanged

\* func(&mut parser): the closure of the builder returns, or panics on its
\* slice of the text; a panic unwinds through with_parser, which drops the
\* parser, and the call does not return.
PoolFunc(t) ==
    /\ callers[t].pc = "func"
    /\ \E panics \in BOOLEAN :
          callers' = IF panics
                     THEN [callers EXCEPT ![t].pc = "panicked", ![t].parser = None]
                     ELSE [callers EXCEPT ![t].pc = "reset", ![t].parser.clean = FALSE]
    /\ UNCHANGED <<parsers_pool, pool_lock, parsers_created>>
    /\ PoolUnchanged

\* parser.reset()
PoolReset(t) ==
    /\ callers[t].pc = "reset"
    /\ callers' = [callers EXCEPT ![t].pc = "lock", ![t].parser.clean = TRUE]
    /\ UNCHANGED <<parsers_pool, pool_lock, parsers_created>>
    /\ PoolUnchanged

\* self.pool.lock().unwrap() before the push.
PoolLockToPush(t) ==
    /\ callers[t].pc = "lock"
    /\ pool_lock = 0
    /\ pool_lock' = t
    /\ callers' = [callers EXCEPT ![t].pc = "push"]
    /\ UNCHANGED <<parsers_pool, parsers_created>>
    /\ PoolUnchanged

\* guard.push(parser); result is returned and the guard dropped.
PoolPush(t) ==
    /\ callers[t].pc = "push"
    /\ parsers_pool' = Append(parsers_pool, callers[t].parser)
    /\ pool_lock' = 0
    /\ callers' = [callers EXCEPT ![t] = Caller("idle", None, @.returned + 1)]
    /\ UNCHANGED parsers_created
    /\ PoolUnchanged

NextPool ==
    \E t \in Callers :
        \/ PoolLockToTake(t)
        \/ PoolTake(t)
        \/ PoolFunc(t)
        \/ PoolReset(t)
        \/ PoolLockToPush(t)
        \/ PoolPush(t)

InitPool ==
    /\ registry = Registry(TRUE, TRUE, NoQuery, NoQuery, NoQuery, NoQuery)
    /\ text = <<>>
    /\ base_language_id = 0
    /\ BuildInit
    /\ HlInit
    /\ LibInit

SpecPool == InitPool /\ [][NextPool]_vars

(***************************************************************************)
(* Specification of the readers of a held snapshot                         *)
(***************************************************************************)
\* The language's parser_info with an indents query.
WithIndents(reg, query1, query2) ==
    <<[reg[1] EXCEPT !.indents_query = query1], [reg[2] EXCEPT !.indents_query = query2]>>

ReadRegistries ==
    {WithIndents(Registry(TRUE, TRUE, InjectRaw("L2"), NoQuery, HlBlockRaw, HlOne("word", 1)),
                 RangesQuery("block", TRUE, FALSE), RangesQuery("word", FALSE, FALSE)),
     WithIndents(Registry(TRUE, TRUE, InjectBlock("L2"), NoQuery, HlOne("word", 0),
                          HlOne("word", 1)),
                 RangesQuery("word", FALSE, FALSE), RangesQuery("block", TRUE, TRUE))}

InitRead ==
    /\ registry \in ReadRegistries
    /\ text \in Texts
    /\ base_language_id = 0
    /\ snapshot = IF parse(0, text, registry).tag = "Some"
                  THEN parse(0, text, registry).snapshot ELSE None
    /\ edit = NoEdit
    /\ parse_queue = <<>>
    /\ entries = <<>>
    /\ changed_ranges = <<>>
    /\ result = None
    /\ fn = "none"
    /\ pc = "idle"
    /\ HlInit
    /\ LibInit

\* inner of nativeGetIndentRanges: collect_ranges with the indents
\* queries, and the array of Range objects.
CallGetIndentRanges ==
    /\ pc = "idle"
    /\ snapshot # None
    /\ \E start_offset \in 0..Len(text), end_offset \in 0..Len(text), use_inner \in BOOLEAN :
          /\ start_offset < end_offset
          /\ LET found == collect_ranges(snapshot, registry, "indents_query",
                                         ByteRange(start_offset * 2, end_offset * 2),
                                         use_inner)
             IN  /\ indent_ranges' =
                        [tag |-> "Some",
                         ranges |-> [k \in 1..Len(found) |->
                                        RangeDesc_to_java_object(found[k].range)]]
                 /\ collected' = [tag |-> "Some", ranges |-> found,
                                  use_inner |-> use_inner]
    /\ fn' = "nativeGetIndentRanges"
    /\ pc' = "ranges_returned"
    /\ UNCHANGED <<predVars, addVars, foldVars, loopVars, cursorVars, poolVars, registry, text, base_language_id,
                   snapshot, parse_queue, entries, changed_ranges, result, edit, hlVars>>

\* The caller drops the array.
RangesRelease ==
    /\ pc = "ranges_returned"
    /\ indent_ranges' = None
    /\ collected' = None
    /\ fn' = "none"
    /\ pc' = "idle"
    /\ UNCHANGED <<predVars, addVars, foldVars, loopVars, cursorVars, poolVars, registry, text, base_language_id,
                   snapshot, parse_queue, entries, changed_ranges, result, edit, hlVars>>

NextRead ==
    \/ CallHighlight
    \/ CollectLoop
    \/ CollectDone
    \/ EmitLoop
    \/ EmitDone
    \/ HlRelease
    \/ CallGetIndentRanges
    \/ RangesRelease
    \/ CallParseIncremental
    \/ ParseIncrementalLoop
    \/ ParseIncrementalDone

SpecRead == InitRead /\ [][NextRead]_vars

(***************************************************************************)
(* Specification of nativeGetIndentRanges over the forms of a pattern      *)
(***************************************************************************)
\* The base language with each form of the pattern as its indents query;
\* the language injected into the raw text captures its words.
RangeRegistries ==
    {WithIndents(Registry(TRUE, TRUE, InjectRaw("L2"), NoQuery, NoQuery, NoQuery),
                 RangesPattern(main, with_start, with_end, inner),
                 RangesQuery("word", FALSE, FALSE)) :
         main \in {"node", "ends"}, with_start \in BOOLEAN, with_end \in BOOLEAN,
         inner \in BOOLEAN}

InitRanges ==
    /\ registry \in RangeRegistries
    /\ text \in Texts
    /\ base_language_id = 0
    /\ snapshot = IF parse(0, text, registry).tag = "Some"
                  THEN parse(0, text, registry).snapshot ELSE None
    /\ edit = NoEdit
    /\ parse_queue = <<>>
    /\ entries = <<>>
    /\ changed_ranges = <<>>
    /\ result = None
    /\ fn = "none"
    /\ pc = "idle"
    /\ HlInit
    /\ LibInit

NextRanges ==
    \/ CallGetIndentRanges
    \/ RangesRelease

SpecRanges == InitRanges /\ [][NextRanges]_vars

(***************************************************************************)
(* Specification of nativeGetFoldRanges                                    *)
(***************************************************************************)
InitFold ==
    /\ registry = Registry(TRUE, TRUE, NoQuery, NoQuery, NoQuery, NoQuery)
    /\ text = <<>>
    /\ base_language_id = 0
    /\ BuildInit
    /\ HlInit
    /\ LibInit

\* nativeGetFoldRanges is called on a document of line comments whose
\* language has a folds query; collect_ranges returns the results.
CallGetFoldRanges ==
    /\ pc = "idle"
    /\ fold_query = None
    /\ \E rows \in LineDocs, query \in FoldQueries :
          /\ fold_query' = [tag |-> "Some", properties |-> query]
          /\ text_buffer' = LineText(rows)
          /\ ranges' = LineRanges(rows)
    /\ range_index' = 0
    /\ combined_ranges' = <<>>
    /\ last_combined_idx' = [p \in PatternIds |-> None]
    /\ fold_ranges' = None
    /\ fn' = "nativeGetFoldRanges"
    /\ pc' = "combine"
    /\ UNCHANGED <<predVars, addVars, rangeVars, loopVars, cursorVars, poolVars, registry, text, base_language_id,
                   snapshot, parse_queue, entries, changed_ranges, result, edit, hlVars>>

\* One turn of the loop over the results.
CombineLoop ==
    /\ pc = "combine"
    /\ range_index < Len(ranges)
    /\ LET st == CombineIteration(FoldState(combined_ranges, last_combined_idx),
                                  ranges[range_index + 1],
                                  query_cache_get(fold_query,
                                                  ranges[range_index + 1].language_id))
       IN  /\ combined_ranges' = st.combined_ranges
           /\ last_combined_idx' = st.last_combined_idx
    /\ range_index' = range_index + 1
    /\ UNCHANGED <<predVars, addVars, rangeVars, loopVars, cursorVars, poolVars, fold_query, text_buffer, ranges,
                   fold_ranges, registry, text, base_language_id, snapshot, buildVars, hlVars,
                   pc>>

\* The loop that fills the array of FoldRange objects, and the return.
GetFoldRangesReturn ==
    /\ pc = "combine"
    /\ range_index = Len(ranges)
    /\ fold_ranges' = [tag |-> "Some",
                       ranges |-> [k \in 1..Len(combined_ranges) |->
                                      RangeDesc_to_java_object(
                                          TrimNewline(combined_ranges[k].range,
                                                      text_buffer))]]
    /\ fn' = "none"
    /\ pc' = "idle"
    /\ UNCHANGED <<predVars, addVars, rangeVars, loopVars, cursorVars, poolVars, fold_query, text_buffer, ranges,
                   range_index, combined_ranges, last_combined_idx, registry, text,
                   base_language_id, snapshot, parse_queue, entries, changed_ranges, result,
                   edit, hlVars>>

\* The results of the entries of the language injected into the nodes of
\* the other pattern: each such node is an entry of its own, after the root
\* entry, with one node that pattern 0 of the injected language's folds
\* query captures.
InjectedRanges(rows) ==
    LET nodes == SelectSeq([r \in 1..Len(rows) |-> r], LAMBDA r : rows[r] = "d0")
    IN  [k \in 1..Len(nodes) |->
            FoldResult(1, 0, LineNodeRange("d0", nodes[k] - 1),
                       LineNodeRange("d0", nodes[k] - 1).end_byte)]

\* The property settings of the one pattern of the injected language's
\* folds query.
InjectedFoldQueries == {<<<<"fold.combined-lines">>>>, <<<<>>>>}

\* nativeGetFoldRanges is called on such a document whose nodes of the
\* other pattern hold an injected language with a folds query of its own.
CallGetFoldRangesInjected ==
    /\ pc = "idle"
    /\ fold_query = None
    /\ \E rows \in LineDocs, query \in FoldQueries, injected \in InjectedFoldQueries :
          /\ fold_query' = [tag |-> "Some", properties |-> query, injected |-> injected]
          /\ text_buffer' = LineText(rows)
          /\ ranges' = LineRanges(rows) \o InjectedRanges(rows)
    /\ range_index' = 0
    /\ combined_ranges' = <<>>
    /\ last_combined_idx' = [p \in PatternIds |-> None]
    /\ fold_ranges' = None
    /\ fn' = "nativeGetFoldRanges"
    /\ pc' = "combine"
    /\ UNCHANGED <<predVars, addVars, rangeVars, loopVars, cursorVars, poolVars, registry, text,
                   base_language_id, snapshot, parse_queue, entries, changed_ranges, result,
                   edit, hlVars>>

NextFoldInjected ==
    \/ CallGetFoldRangesInjected
    \/ CombineLoop
    \/ GetFoldRangesReturn

SpecFoldInjected == InitFold /\ [][NextFoldInjected]_vars

NextFold ==
    \/ CallGetFoldRanges
    \/ CombineLoop
    \/ GetFoldRangesReturn

SpecFold == InitFold /\ [][NextFold]_vars

(***************************************************************************)
(* Properties of the builder                                               *)
(***************************************************************************)
Returned == pc = "done" /\ result.tag = "Some"

\* What a snapshot entry is, modulo tree identity.
EntryFace(e) ==
    [depth |-> e.depth, byte_range |-> e.byte_range, byte_offset |-> e.byte_offset,
     point_offset |-> e.point_offset, parsed |-> e.content.tag, language |-> e.content.language]

SnapshotFace(r) ==
    IF r.tag = "Some"
    THEN [i \in 1..Len(r.snapshot.entries) |-> EntryFace(r.snapshot.entries[i])]
    ELSE <<r.tag>>

\* The base language of the running build.
RunningBase == IF fn = "parse" THEN base_language_id ELSE base_language(snapshot)

\* C2: every returned snapshot has a first entry of depth 0, Parsed with
\* the base language and spanning [0, 2 * len); a build whose base language
\* is not registered or whose root cannot be parsed returns nothing.
C2_RootEntry ==
    /\ Returned =>
          /\ Len(result.snapshot.entries) >= 1
          /\ result.snapshot.entries[1].depth = 0
          /\ result.snapshot.entries[1].content.tag = "Parsed"
          /\ result.snapshot.entries[1].content.language = RunningBase
          /\ result.snapshot.entries[1].byte_range = ByteRange(0, 2 * Len(text))
    /\ (pc = "done" /\ fn = "parse"
          /\ \A i \in 1..Len(registry) :
                registry[i].id = base_language_id => ~registry[i].abi_ok)
       => result = None

C2_Witness ==
    /\ Returned
    /\ fn = "parse_incremental"
    /\ Len(result.snapshot.entries) > 1
    /\ result.snapshot.entries[2].content.tag = "Unparsed"

\* The commands the running loop turns into an Unparsed entry: the
\* language is unresolved, or the parse primitive yields no tree.
YieldsNoTree(c) ==
    \/ c.language.tag = "Unknown"
    \/ /\ c.language.tag = "Known"
       /\ \E i \in 1..Len(registry) :
             /\ registry[i].id = c.language.id
             /\ ~registry[i].abi_ok

\* C3: a non-root command with an unresolved language or a failing parse
\* adds exactly one Unparsed entry with the command's depth, byte range,
\* byte offset and point offset, queues no child, the loop goes on, and the
\* build still returns a snapshot.
C3_UnparsedStep ==
    /\ [][\A k \in 1..Len(parse_queue) :
            (/\ pc \in {"parse", "parse_incremental"}
             /\ PopCandidates(parse_queue) = {k}
             /\ parse_queue[k].depth > 0
             /\ YieldsNoTree(parse_queue[k])
             /\ entries' # entries)
            => /\ Len(entries') = Len(entries) + 1
               /\ SubSeq(entries', 1, Len(entries)) = entries
               /\ entries'[Len(entries')].content.tag = "Unparsed"
               /\ entries'[Len(entries')].depth = parse_queue[k].depth
               /\ entries'[Len(entries')].byte_range = parse_queue[k].byte_range
               /\ entries'[Len(entries')].byte_offset = parse_queue[k].byte_offset
               /\ entries'[Len(entries')].point_offset = parse_queue[k].point_offset
               /\ parse_queue' = RemoveAt(parse_queue, k)
               /\ pc' = pc]_vars
    /\ []((pc = "done" /\ \E i \in 1..Len(entries) :
                             entries[i].depth > 0 /\ entries[i].content.tag = "Unparsed")
          => result.tag = "Some")

C3_Witness ==
    /\ Returned
    /\ \E i \in 2..Len(result.snapshot.entries) :
          /\ result.snapshot.entries[i].depth > 0
          /\ result.snapshot.entries[i].content.tag = "Unparsed"
          /\ i < Len(result.snapshot.entries)
          /\ result.snapshot.entries[i + 1].byte_offset > 0

\* C4: in every built snapshot every non-root entry lies inside the node
\* captured as injection.content that produced it, with or without offset!.
C4_EntryInsideCapturedNode ==
    Returned =>
        \A i \in 2..Len(result.snapshot.entries) :
            LET e == result.snapshot.entries[i]
            IN  /\ e.captured.start <= e.byte_range.start
                /\ e.byte_range.end <= e.captured.end
                /\ e.byte_range.end <= 2 * Len(text)

\* C5: the changed ranges of a successful parse_incremental hold the range
\* from edit.start to edit.new_end with the edit's start and new-end points.
C5_EditSpanReported ==
    (Returned /\ fn = "parse_incremental") =>
        \E i \in 1..Len(result.changed_ranges) :
            /\ result.changed_ranges[i].start_byte = edit.start_byte
            /\ result.changed_ranges[i].end_byte = edit.new_end_byte
            /\ result.changed_ranges[i].start_point = edit.start_position
            /\ result.changed_ranges[i].end_point = edit.new_end_position

C5_Witness ==
    /\ Returned
    /\ fn = "parse_incremental"
    /\ edit.old_end_byte # edit.new_end_byte
    /\ Len(result.changed_ranges) > 1

\* C6: the snapshot an incremental rebuild returns has the entries that
\* SyntaxSnapshot::parse returns on the same text and base language.
C6_IncrementalEqualsFresh ==
    (pc = "done" /\ fn = "parse_incremental") =>
        SnapshotFace(result) = SnapshotFace(parse(base_language(snapshot), text, registry))

C6_Witness ==
    /\ Returned
    /\ fn = "parse_incremental"
    /\ Len(result.snapshot.entries) >= 3
    /\ Len(snapshot.entries) = 1


\* The injected regions of the held snapshot the edit lies strictly inside.
EditedRegions ==
    {i \in 2..Len(snapshot.entries) :
        /\ snapshot.entries[i].byte_range.start < edit.start_byte
        /\ edit.old_end_byte < snapshot.entries[i].byte_range.end}

EditInsideOneRegion ==
    /\ pc = "parse_incremental"
    /\ Cardinality(EditedRegions) = 1

\* The byte range meets the edit's new span: the region the edit fell in,
\* or what the edit left of it.
HoldsEdit(byte_range) ==
    byte_range.start <= edit.new_end_byte /\ edit.start_byte <= byte_range.end

\* The edit leaves the document with as many regions as it had.
RegionsKept ==
    LET fresh == parse(base_language(snapshot), text, registry)
    IN  fresh.tag = "Some" /\ Len(fresh.snapshot.entries) = Len(snapshot.entries)

C13_OffsetShiftsStartAndEnd ==
    \A k \in 1..Len(parse_queue) :
        LET c == parse_queue[k]
            q == registry[1].injections_query
        IN  (/\ pc \in {"parse", "parse_incremental"}
             /\ c.depth = 1
             /\ q.tag = "Some"
             /\ q.offset.tag = "Some")
            => LET s == c.captured.start + q.offset.start_offset
                   e == c.captured.end + q.offset.end_offset
               IN  /\ c.included_ranges = <<Range(s, e, Point(0, s), Point(0, e))>>
                   /\ c.byte_range = ByteRange(s, e)

(***************************************************************************)
(* Properties of the highlighting lexer                                    *)
(***************************************************************************)
HlReturned == pc = "returned"

RECURSIVE TokenSum(_)
TokenSum(tokens) ==
    IF tokens = <<>> THEN 0 ELSE tokens[1].length + TokenSum(Tail(tokens))

\* The tokens laid end to end from the cover start: each token sits where
\* the span it was cut from starts, and is as long as that span.
LaidEndToEnd(tokens, cover) ==
    \A i \in 1..Len(tokens) :
        /\ tokens[i].from = cover + 2 * TokenSum(SubSeq(tokens, 1, i - 1))
        /\ tokens[i].to = tokens[i].from + 2 * tokens[i].length

CoverEnd == byte_start + 2 * TokenSum(highlight_tokens)

\* C1 as stated: the tokens tile [cover-start, end) exactly, no token
\* extends past end and emission does not stop before end.
C1_TilesRequestExactly ==
    HlReturned => /\ LaidEndToEnd(highlight_tokens, byte_start)
                  /\ CoverEnd = request.end * 2

\* C1, amended: the tokens are whole nodes and gaps laid end to end from the
\* cover start, contiguous and without overlap; they reach end, and they
\* pass it only by the rest of the last token that starts before end.
C1_TilesCover ==
    HlReturned => /\ LaidEndToEnd(highlight_tokens, byte_start)
                  /\ byte_start <= request.start * 2
                  /\ CoverEnd >= request.end * 2
                  /\ \A i \in 1..Len(highlight_tokens) :
                        highlight_tokens[i].length > 0
                            => highlight_tokens[i].from < request.end * 2

C1_Witness ==
    /\ HlReturned
    /\ CoverEnd > request.end * 2
    /\ byte_start < request.start * 2
    /\ \E i, j \in 1..Len(highlight_tokens) :
          highlight_tokens[i].leaf /\ ~highlight_tokens[j].leaf

Captured(chain, hls) ==
    {i \in 1..Len(chain) :
        /\ Lookup(hls, chain[i].range).tag = "Some"
        /\ Lookup(hls, chain[i].range).value.language = chain[i].language}

Innermost(positions) == CHOOSE i \in positions : \A j \in positions : i >= j

\* The capture of the innermost captured node of the token's language.
SameLanguageCapture(tok, hls) ==
    LET hit == {i \in Captured(tok.chain, hls) : tok.chain[i].language = tok.language_id}
    IN  IF hit = {} THEN NoneId
        ELSE Lookup(hls, tok.chain[Innermost(hit)].range).value.capture_id

\* The nodes of the forest with the range.
NodesAt(snap, range) ==
    {f \in UNION {{Frame(e, n) : n \in 1..Len(snap.entries[e].content.tree)} :
                     e \in 1..Len(snap.entries)} :
        FrameRange(snap, f) = range}

\* The range of a node the cursor cannot descend from.
IsLeafRange(snap, range) ==
    \E f \in NodesAt(snap, range) : goto_first_child(snap, <<f>>).tag = "None"

\* The only capture h gives one token with its capture, of its length, at
\* its position, and none elsewhere.
OneTokenFor(h) ==
    \E i \in 1..Len(highlight_tokens) :
        /\ highlight_tokens[i].capture_id = h.capture_id
        /\ highlight_tokens[i].length * 2 = h.range.end - h.range.start
        /\ byte_start + 2 * TokenSum(SubSeq(highlight_tokens, 1, i - 1)) = h.range.start
        /\ \A j \in 1..Len(highlight_tokens) :
              j # i => highlight_tokens[j].capture_id = NoneId

\* One captured leaf in an otherwise uncaptured document.
SingleCapturedLeaf ==
    \A h \in highlights :
        (highlights = {h} /\ IsLeafRange(snapshot, h.range) /\ h.range.end > h.range.start)
            => OneTokenFor(h)

\* C8 as stated: each leaf token carries the capture of the innermost node,
\* itself or an ancestor in the same language, whose range has a recorded
\* capture, and none when there is no such node; a single captured leaf
\* gives one token with its capture at its position and none elsewhere.
C8_SameLanguageAncestor ==
    HlReturned =>
        /\ \A i \in 1..Len(highlight_tokens) :
              highlight_tokens[i].leaf
                  => highlight_tokens[i].capture_id
                         = SameLanguageCapture(highlight_tokens[i], highlights)
        /\ SingleCapturedLeaf

\* The captures the query cursor yields for the call.
ProducedCaptures ==
    UNION {PendingCaptures(registry, snapshot, ByteRange(byte_start, request.end * 2))[i] :
              i \in 1..Len(PendingCaptures(registry, snapshot,
                                           ByteRange(byte_start, request.end * 2)))}

\* The captures of the kept capture's language on its range.
Rivals(h) == {c \in ProducedCaptures : c.range = h.range /\ c.language = h.language}

\* No capture of another language on the range.
OneLanguage(h) == \A c \in ProducedCaptures : c.range = h.range => c.language = h.language

\* C9 as stated: of the captures of one language on one range the kept one
\* comes from the lowest pattern index.
C9_LowestPatternKept ==
    pc \in {"emit", "returned"} =>
        \A h \in highlights :
            OneLanguage(h) => \A c \in Rivals(h) : h.pattern_index <= c.pattern_index

\* C9, amended: of the visible captures of one language on one range the
\* kept one comes from the highest pattern index, whatever the order in
\* which the captures are produced.
C9_HighestPatternKept ==
    pc \in {"emit", "returned"} =>
        \A h \in highlights :
            OneLanguage(h) => \A c \in Rivals(h) : h.pattern_index >= c.pattern_index

C9_Witness ==
    /\ pc = "emit"
    /\ \E h \in highlights :
          /\ OneLanguage(h)
          /\ \E c \in Rivals(h) : c.pattern_index < h.pattern_index

\* The entries of injections whose language name is not in the registry.
UnknownRegions ==
    {i \in 2..Len(snapshot.entries) :
        /\ snapshot.entries[i].content.tag = "Unparsed"
        /\ snapshot.entries[i].content.hint = LanguageName("zz")}

Covers(tok, i) ==
    /\ tok.from < snapshot.entries[i].byte_range.end
    /\ tok.to > snapshot.entries[i].byte_range.start

\* Every raw node of the host has its Unparsed entry.
UnknownInjectionsUnparsed ==
    (snapshot # None /\ registry[1].injections_query = InjectRaw("zz"))
        => \A n \in 1..Len(snapshot.entries[1].content.tree) :
              snapshot.entries[1].content.tree[n].kind = "raw"
                  => \E i \in UnknownRegions :
                        /\ snapshot.entries[i].depth = 1
                        /\ snapshot.entries[i].byte_range = FrameRange(snapshot, Frame(1, n))

\* C10 as stated: the region of an injection with an unknown language name
\* is an Unparsed entry, and every token that covers it has capture none,
\* also when the host node is captured.
C10_UnknownRegionNone ==
    /\ UnknownInjectionsUnparsed
    /\ HlReturned =>
          \A i \in UnknownRegions : \A t \in 1..Len(highlight_tokens) :
              Covers(highlight_tokens[t], i) => highlight_tokens[t].capture_id = NoneId

\* The captures of the host language recorded for the host node of the
\* region or for a node around it.
HostCaptures(i) ==
    {h.capture_id : h \in {g \in highlights :
                              /\ g.language = base_language_id
                              /\ g.range.start <= snapshot.entries[i].byte_range.start
                              /\ g.range.end >= snapshot.entries[i].byte_range.end}}

\* C10, amended: the region of an injection with an unknown language name
\* is an Unparsed entry, the cursor never enters it, and every token that
\* covers it is a token of the host language whose capture is none or a
\* capture the host's highlight query gives the host node or a node around
\* it: a captured host node passes its capture to the token.
C10_UnknownRegionHost ==
    /\ UnknownInjectionsUnparsed
    /\ \A k \in 1..Len(entry_stack) :
          snapshot.entries[entry_stack[k].entry].content.tag = "Parsed"
    /\ HlReturned =>
          \A i \in UnknownRegions : \A t \in 1..Len(highlight_tokens) :
              Covers(highlight_tokens[t], i)
                  => /\ highlight_tokens[t].language_id = base_language_id
                     /\ highlight_tokens[t].capture_id \in HostCaptures(i) \cup {NoneId}
                     /\ (/\ highlight_tokens[t].leaf
                         /\ Lookup(highlights, ByteRange(highlight_tokens[t].from,
                                                         highlight_tokens[t].to)).tag = "Some")
                            => highlight_tokens[t].capture_id # NoneId

C10_Witness ==
    /\ HlReturned
    /\ \E i \in UnknownRegions : \E t \in 1..Len(highlight_tokens) :
          /\ Covers(highlight_tokens[t], i)
          /\ highlight_tokens[t].capture_id # NoneId

(***************************************************************************)
(* Properties of the predicates                                            *)
(***************************************************************************)
Checked == pc = "checked" /\ verdict.tag = "Some"

\* Instance i of the capture contains the literal.
Holds(i) == str_contains(recode(captured_nodes[i]), predicate.pattern)

Instances == 1..Len(captured_nodes)

\* C14: contains? is true iff every instance contains the literal,
\* not-contains? iff every instance does not, any-contains? iff at least
\* one does, any-not-contains? iff at least one does not; with no instance
\* the result is match_all.
C14_ContainsFamily ==
    Checked =>
        /\ predicate = parse_predicate("contains?", predicate.pattern)
              => verdict.value = \A i \in Instances : Holds(i)
        /\ predicate = parse_predicate("not-contains?", predicate.pattern)
              => verdict.value = \A i \in Instances : ~Holds(i)
        /\ predicate = parse_predicate("any-contains?", predicate.pattern)
              => verdict.value = \E i \in Instances : Holds(i)
        /\ predicate = parse_predicate("any-not-contains?", predicate.pattern)
              => verdict.value = \E i \in Instances : ~Holds(i)
        /\ captured_nodes = <<>> => verdict.value = predicate.match_all

C14_Witness ==
    /\ Checked
    /\ predicate = parse_predicate("any-not-contains?", <<"EF", "BF", "BD">>)
    /\ Len(captured_nodes) = 2
    /\ Holds(1) /\ ~Holds(2)
    /\ verdict.value

\* What the operator returns on the match under check.
Result(operator) ==
    check_predicate(parse_predicate(operator, predicate.pattern), captured_nodes, 1)

\* C15 as stated: with at least one instance, one or several, contains?
\* and not-contains? return opposite results, and so do any-contains? and
\* any-not-contains?; only with no instance do both members of a pair
\* return the same value.
C15_PairsOpposite ==
    predicate # None =>
        /\ captured_nodes # <<>> =>
              /\ Result("contains?") # Result("not-contains?")
              /\ Result("any-contains?") # Result("any-not-contains?")
        /\ captured_nodes = <<>> =>
              /\ Result("contains?") = Result("not-contains?")
              /\ Result("any-contains?") = Result("any-not-contains?")

\* All instances contain the literal, or none does.
InstancesAgree == \A i, j \in Instances : Holds(i) = Holds(j)

\* C15, amended: the members of a pair return opposite results when the
\* capture has at least one instance and its instances agree; with no
\* instance both return match_all, and with instances that disagree both
\* return the same value too: false for contains?/not-contains?, true for
\* the any- variants.
C15_PairsOppositeWhenAgreeing ==
    predicate # None =>
        /\ (captured_nodes # <<>> /\ InstancesAgree) =>
              /\ Result("contains?") # Result("not-contains?")
              /\ Result("any-contains?") # Result("any-not-contains?")
        /\ captured_nodes = <<>> =>
              /\ Result("contains?") /\ Result("not-contains?")
              /\ ~Result("any-contains?") /\ ~Result("any-not-contains?")
        /\ ~InstancesAgree =>
              /\ ~Result("contains?") /\ ~Result("not-contains?")
              /\ Result("any-contains?") /\ Result("any-not-contains?")

C15_Witness ==
    /\ Checked
    /\ Len(captured_nodes) = 2
    /\ ~InstancesAgree
    /\ predicate.is_positive /\ predicate.match_all
    /\ ~verdict.value

(***************************************************************************)
(* Properties of the injection queries                                     *)
(***************************************************************************)
\* nativeAddInjectionQuery has returned for a registered language.
AddReturned ==
    /\ query_source # None
    /\ pc # "add_injection_query"
    /\ LanguageRegistry_language(registry, query_language_id).tag = "Some"

SourceNames == capture_names(query_source.source.captures, 1, <<>>)

Thrown(error) == exception = [tag |-> "Some", error |-> error]

InlineCaptured ==
    \E k \in 1..Len(query_source.source.captures) :
        query_source.source.captures[k] \in {"injection.language", "injection.mimetype"}

ContentCaptured ==
    \E k \in 1..Len(query_source.source.captures) :
        query_source.source.captures[k] = "injection.content"

\* C17 as stated: a pattern with a static injection.language setting and
\* an inline injection.language or injection.mimetype capture is rejected
\* with an error.
C17_StaticWithInlineRejected ==
    (AddReturned /\ query_source.source.settings # <<>> /\ InlineCaptured)
        => exception # None

\* C17, amended: a pattern with two static injection.language settings is
\* rejected with LanguageConflict; a static setting together with an
\* inline injection.language or injection.mimetype capture is no error:
\* the query is stored, with the static language for the pattern.
C17_TwoStaticsRejected ==
    (AddReturned /\ ContentCaptured) =>
        /\ Len(query_source.source.settings) >= 2 => Thrown("LanguageConflict")
        /\ (Len(query_source.source.settings) = 1 /\ InlineCaptured) =>
              /\ exception = None
              /\ LanguageRegistry_language(registry, query_language_id)
                     .language.injections_query.language
                 = Static(LanguageName(query_source.source.settings[1]))

C17_Witness ==
    /\ AddReturned
    /\ exception = None
    /\ query_source.source.settings = <<"L2">>
    /\ query_source.source.captures = <<"injection.content", "injection.language">>
    /\ registry[1].injections_query.language = Static(LanguageName("L2"))
    /\ registry[1].injections_query.injection_language_capture_id = SomeId(1)

\* The injection query of the base language of the running parse.
BaseQuery == registry[1].injections_query

\* The queued commands that come from a match of BaseQuery.
QueuedInjections ==
    {k \in 1..Len(parse_queue) : pc = "parse" /\ parse_queue[k].depth = 1}

\* The text of the node a queued command was captured on.
CapturedText(c) ==
    from_utf16_lossy(SubText(text, c.captured.start \div 2, c.captured.end \div 2))

HasInlineCapture(q) ==
    \/ q.injection_language_capture_id # None
    \/ q.injection_mimetype_capture_id # None

\* C18 as stated: the language of a match is the text of the inline
\* injection.language / injection.mimetype capture when the match has
\* one, and the static setting only when it has none (no language of the
\* registry is named by a text of the document).
C18_InlineBeforeStatic ==
    \A k \in QueuedInjections :
        HasInlineCapture(BaseQuery) =>
            /\ parse_queue[k].language.tag = "Unknown"
            /\ parse_queue[k].language.unknown.name = CapturedText(parse_queue[k])

\* C18, amended: the language of a match is the pattern's static
\* injection.language setting when the pattern has one, and the text of
\* the inline capture only when it has none; a match with both has the
\* static language.
C18_StaticBeforeInline ==
    \A k \in QueuedInjections :
        LET c == parse_queue[k]
            found == with_unknown_language(registry, BaseQuery.language.language)
        IN  /\ BaseQuery.language.tag = "Static" =>
                  c.language = IF found.tag = "Some" THEN Known(found.language.id)
                               ELSE Unknown(BaseQuery.language.language)
            /\ BaseQuery.language.tag = "NotSpecified" =>
                  /\ HasInlineCapture(BaseQuery)
                  /\ c.language.tag = "Unknown"
                  /\ c.language.unknown.name = CapturedText(c)

C18_Witness ==
    /\ \E k \in QueuedInjections :
          /\ parse_queue[k].language = Known(1)
          /\ CapturedText(parse_queue[k]) = "aa"
    /\ BaseQuery.language = Static(LanguageName("L2"))
    /\ BaseQuery.injection_language_capture_id # None

(***************************************************************************)
(* Properties of the fold ranges                                           *)
(***************************************************************************)
\* The result the combining loop takes next.
Taken == ranges[range_index + 1]

HasProperty(pattern_id, key) ==
    \E k \in 1..Len(fold_query.properties[pattern_id + 1]) :
        fold_query.properties[pattern_id + 1][k] = key

\* Where the previous result of the pattern is in combined_ranges, or 0.
PreviousOf(pattern_id) ==
    LET same == {k \in 1..Len(combined_ranges) : combined_ranges[k].pattern_id = pattern_id}
    IN  IF same = {} THEN 0 ELSE CHOOSE k \in same : \A m \in same : m <= k

\* The later result starts where the earlier one's next-byte anchor is, in
\* the same column, on the row the earlier one ends on or the row after.
Adjacent(earlier, later) ==
    /\ earlier.next_byte = later.range.start_byte
    /\ earlier.range.start_point.column = later.range.start_point.column
    /\ later.range.start_point.row \in
           {earlier.range.end_point.row, earlier.range.end_point.row + 1}

\* C19: a result of a pattern with fold.combined-lines is merged into the
\* previous result of its pattern exactly if that result's next-byte anchor
\* is the later start byte, the start columns are equal and the later start
\* row is the earlier end row or the row after; the merged result keeps the
\* earlier start and takes the later end and next-byte anchor; otherwise
\* the result is added as it is.
C19_MergeWhenAdjacent ==
    [][(pc = "combine" /\ range_index < Len(ranges)
            /\ HasProperty(Taken.pattern_id, "fold.combined-lines"))
        => LET k == PreviousOf(Taken.pattern_id)
               n == Len(combined_ranges)
           IN  IF k # 0 /\ Adjacent(combined_ranges[k], Taken)
               THEN /\ Len(combined_ranges') = n
                    /\ \A m \in (1..n) \ {k} : combined_ranges'[m] = combined_ranges[m]
                    /\ combined_ranges'[k].range =
                           Range(combined_ranges[k].range.start_byte, Taken.range.end_byte,
                                 combined_ranges[k].range.start_point, Taken.range.end_point)
                    /\ combined_ranges'[k].next_byte = Taken.next_byte
               ELSE /\ Len(combined_ranges') = n + 1
                    /\ SubSeq(combined_ranges', 1, n) = combined_ranges
                    /\ combined_ranges'[n + 1].range = Taken.range
                    /\ combined_ranges'[n + 1].next_byte = Taken.next_byte]_vars

\* Two comments on adjacent rows have become one range over both rows.
C19_Witness ==
    /\ pc = "combine"
    /\ \E k \in 1..Len(combined_ranges) :
          /\ combined_ranges[k].range.end_point.row = combined_ranges[k].range.start_point.row + 1
          /\ combined_ranges[k].range.end_point.column = 4
          /\ HasProperty(combined_ranges[k].pattern_id, "fold.combined-lines")

Apart == [tag |-> "Apart"]

\* The combination of two results, where they can be combined.
Combine(earlier, later) ==
    IF earlier = Apart \/ later = Apart THEN Apart
    ELSE IF ~Adjacent(earlier, later) THEN Apart
    ELSE [range |-> Range(earlier.range.start_byte, later.range.end_byte,
                          earlier.range.start_point, later.range.end_point),
          next_byte |-> later.next_byte]

Plain(item) == [range |-> item.range, next_byte |-> item.next_byte]

RECURSIVE LeftToRight(_, _, _)
LeftToRight(acc, run, k) ==
    IF k > Len(run) THEN acc ELSE LeftToRight(Combine(acc, Plain(run[k])), run, k + 1)

RECURSIVE RightToLeft(_)
RightToLeft(run) ==
    IF Len(run) = 1 THEN Plain(run[1]) ELSE Combine(Plain(run[1]), RightToLeft(Tail(run)))

\* Results i..j are of one pattern with fold.combined-lines, each next to
\* the one before it, on one line each.
IsRun(i, j) ==
    /\ HasProperty(ranges[i].pattern_id, "fold.combined-lines")
    /\ \A k \in i..j :
          /\ ranges[k].pattern_id = ranges[i].pattern_id
          /\ ranges[k].range.start_point.row = ranges[k].range.end_point.row
    /\ \A k \in i..(j - 1) : Adjacent(ranges[k], ranges[k + 1])

\* Result i is not next to the result of its pattern before it.
RunStartsAt(i) ==
    LET before == {k \in 1..(i - 1) : ranges[k].pattern_id = ranges[i].pattern_id}
    IN  \A k \in before : (\A m \in before : m <= k) => ~Adjacent(ranges[k], ranges[i])

\* C20: for a run of three or more adjacent results of one pattern, on one
\* line each and pairwise satisfying the merge conditions, combining from
\* the left and combining from the right give the same single range, and
\* that range is what the loop has made of the run when it has taken the
\* run's last result.
C20_RunCombinesToOneRange ==
    \A i, j \in 1..Len(ranges) :
        (pc = "combine" /\ range_index = j /\ j >= i + 2 /\ IsRun(i, j) /\ RunStartsAt(i))
        => LET run == SubSeq(ranges, i, j)
               left == LeftToRight(Plain(run[1]), run, 2)
               last == combined_ranges[PreviousOf(ranges[i].pattern_id)]
           IN  /\ left # Apart
               /\ left = RightToLeft(run)
               /\ Plain(last) = left

\* The loop has taken the last of three comments on three adjacent rows.
C20_Witness ==
    /\ pc = "combine"
    /\ range_index >= 3
    /\ IsRun(range_index - 2, range_index)
    /\ RunStartsAt(range_index - 2)
    /\ \E k \in 1..Len(combined_ranges) :
          combined_ranges[k].range.end_point.row = combined_ranges[k].range.start_point.row + 2

LineStartBefore(txt, offset) ==
    LET breaks == {i \in 1..(offset - 1) : txt[i] = "\n"}
    IN  IF breaks = {} THEN 0 ELSE CHOOSE i \in breaks : \A j \in breaks : j <= i

\* C21: a combined range whose last code unit is a newline is emitted with
\* its end offset one code unit lower, its end row one lower, and its end
\* column the number of code units from the start of that line to the new
\* end.
C21_NewlineTrimmed ==
    (pc = "idle" /\ fold_ranges # None)
    => \A k \in 1..Len(combined_ranges) :
          LET range == combined_ranges[k].range
              end == range.end_byte \div 2
              emitted == fold_ranges.ranges[k]
          IN  text_buffer[end] = "\n"
              => /\ emitted.end_byte = end - 1
                 /\ emitted.end_point.row = range.end_point.row - 1
                 /\ emitted.end_point.column = (end - 1) - LineStartBefore(text_buffer, end)

(***************************************************************************)
(* Properties of the order of the build                                    *)
(***************************************************************************)
\* The key (depth, start, end) of a is not above that of b.
KeyNotAbove(a, b) ==
    \/ a.depth < b.depth
    \/ /\ a.depth = b.depth
       /\ \/ a.byte_range.start < b.byte_range.start
          \/ /\ a.byte_range.start = b.byte_range.start
             /\ a.byte_range.end <= b.byte_range.end

SortedByKey(list) ==
    \A i, j \in 1..Len(list) : i < j => KeyNotAbove(list[i], list[j])

\* C22: the entries pushed by a build, and the entries of every snapshot
\* built, are in ascending order of (depth, start, end); every command
\* still in the queue comes after every entry pushed.
C22_EntriesInKeyOrder ==
    /\ SortedByKey(entries)
    /\ \A i \in 1..Len(entries), k \in 1..Len(parse_queue) :
          KeyNotAbove(entries[i], parse_queue[k])
    /\ snapshot # None => SortedByKey(snapshot.entries)
    /\ (result # None /\ result.tag = "Some") => SortedByKey(result.snapshot.entries)

\* A command of depth 2 was pushed while a command of depth 1 was in the
\* queue, and the build has returned.
C22_Witness ==
    /\ pc = "done"
    /\ result.tag = "Some"
    /\ \E i, j \in 1..Len(result.snapshot.entries) :
          /\ i < j
          /\ result.snapshot.entries[i].depth = 1
          /\ result.snapshot.entries[j].depth = 2
          /\ result.snapshot.entries[j].byte_range.start
                 < result.snapshot.entries[i].byte_range.start

(***************************************************************************)
(* Properties of the reuse basis                                           *)
(***************************************************************************)
\* The loop of parse_incremental is about to take a command.
LoopTakes == pc = "parse_incremental" /\ parse_queue # <<>>

\* The old root entry fits the edit and the new text.
OldRootFits ==
    LET old_root == snapshot.entries[1]
    IN  /\ old_root.byte_range.end >= edit.old_end_byte
        /\ (old_root.byte_range.end - edit.old_end_byte) + edit.new_end_byte = 2 * Len(text)
        /\ old_root.content.tag = "Parsed"
        /\ old_root.content.language = base_language(snapshot)

TurnParsed(k) ==
    LET last == entries'[Len(entries')]
    IN  /\ Len(entries') = Len(entries) + 1
        /\ last.content.tag = "Parsed"
        /\ last.depth = parse_queue[k].depth
        /\ last.byte_range = parse_queue[k].byte_range
        /\ last.byte_offset = parse_queue[k].byte_offset
        /\ Len(parse_queue') >= Len(parse_queue) - 1

\* The region of a command in document coordinates: its included ranges
\* or, for the root, which has none, its whole byte range.
WholeRegion(parse_command) ==
    IF parse_command.included_ranges # <<>> THEN parse_command.included_ranges
    ELSE <<Range(parse_command.byte_range.start, parse_command.byte_range.end,
                 Point(0, parse_command.byte_range.start),
                 Point(0, parse_command.byte_range.end))>>

\* C24: a turn that parses a command without a reuse basis appends the
\* command's whole region, in document coordinates, to the changed ranges;
\* the turn that parses the root on the old root tree appends what the
\* engine reports between the edited old tree and the new tree.
C24_FreshRegionsReportedGlobally ==
    [][LoopTakes
        => \A k \in PopCandidates(parse_queue) :
              TurnParsed(k)
              => IF old_tree_passed' = None
                 THEN changed_ranges' = changed_ranges \o WholeRegion(parse_queue[k])
                 ELSE changed_ranges'
                          = changed_ranges
                            \o ts_changed_ranges(old_tree_passed'.tree,
                                                 entries'[Len(entries')].content.tree, 1)]_vars

CursorNode(stack) == snapshot.entries[Top(stack).entry].content.tree[Top(stack).node]

\* The turn moved the cursor down: to a child of its node or into an entry.
Descended ==
    \/ Len(entry_stack') > Len(entry_stack)
    \/ /\ Len(entry_stack') = Len(entry_stack)
       /\ Top(entry_stack').entry = Top(entry_stack).entry
       /\ CursorNode(entry_stack').parent = Top(entry_stack).node

\* The turn moved the cursor to a later sibling of its node.
WentRight ==
    /\ Len(entry_stack') = Len(entry_stack)
    /\ Top(entry_stack').entry = Top(entry_stack).entry
    /\ CursorNode(entry_stack').parent = CursorNode(entry_stack).parent
    /\ Top(entry_stack').node > Top(entry_stack).node

\* The turn moved the cursor back up: to the parent of its node or out of
\* the entry.
CameBack ==
    \/ Len(entry_stack') < Len(entry_stack)
    \/ /\ Len(entry_stack') = Len(entry_stack)
       /\ Top(entry_stack').entry = Top(entry_stack).entry
       /\ CursorNode(entry_stack).parent = Top(entry_stack').node

\* A turn of the loop that changes neither the position nor the cursor ends
\* the loop.
TurnChangesState ==
    EmitLoopEnabled
    => LET st == EmitIteration(snapshot, highlights,
                               EmitState(entry_stack, highlight_stack, highlight_tokens,
                                         byte_current, "loop"))
       IN  \/ st.status = "break"
           \/ st.byte_current > byte_current
           \/ st.entry_stack # entry_stack

\* C26: highlight_tokens_cover comes to its end.  The position never goes
\* back; a turn that does not advance it ends the loop or moves the cursor
\* one step on in the walk (down, to a later sibling, or back up); the cursor
\* goes down only from a node that ends after the position, and when it has
\* come back to a node the position is at or past that node's end, so that
\* node is not entered again.
C26_EmitLoopTerminates ==
    /\ []TurnChangesState
    /\ [][EmitLoop
            => /\ byte_current' >= byte_current
               /\ \/ byte_current' > byte_current
                  \/ pc' = "returned"
                  \/ Descended \/ WentRight \/ CameBack
               /\ Descended => byte_current < node_range(snapshot, entry_stack).end
               /\ CameBack => byte_current' >= node_range(snapshot, entry_stack').end]_vars
    /\ ((pc = "emit") ~> (pc = "returned"))

\* The loop has gone into an injected entry, come back out of it and ended
\* at the end of the request.
C26_Witness ==
    /\ pc = "returned"
    /\ Len(entry_stack) = 1
    /\ byte_current >= request.end * 2
    /\ \E i \in 1..Len(highlight_tokens) : highlight_tokens[i].language_id = 1

(***************************************************************************)
(* Properties of the cover start                                           *)
(***************************************************************************)
\* The start bytes and end bytes of the nodes of the parsed entries.
NodeBoundaries(snap) ==
    UNION {IF snap.entries[i].content.tag = "Parsed"
           THEN UNION {{FrameRange(snap, Frame(i, n)).start, FrameRange(snap, Frame(i, n)).end} :
                          n \in 1..Len(snap.entries[i].content.tree)}
           ELSE {} : i \in 1..Len(snap.entries)}

\* C27: the cover start find_cover_start returns is not after the requested
\* start and is 0 or the start or the end of a node; it is 0 or the start or
\* the end of the node the returned cursor is on, which is the node of the
\* last element of the returned ancestor stack; and the first token emitted
\* begins at the cover start.
C27_CoverStartIsNodeBoundary ==
    pc \in {"collect", "emit", "returned"}
    => /\ byte_start <= request.start * 2
       /\ byte_start \in {0} \cup NodeBoundaries(snapshot)
       /\ pc = "collect"
          => /\ byte_start \in {0, node_range(snapshot, entry_stack).start,
                                 node_range(snapshot, entry_stack).end}
             /\ parent_stack # <<>>
             /\ parent_stack[Len(parent_stack)] = ParentStackEntry(snapshot, entry_stack)
       /\ highlight_tokens # <<>> => highlight_tokens[1].from = byte_start

\* A cover start left of the requested start that is not the start of the
\* text, with the tokens emitted.
C27_Witness ==
    /\ pc = "returned"
    /\ byte_start > 0
    /\ byte_start < request.start * 2
    /\ highlight_tokens # <<>>
    /\ highlight_tokens[1].from = byte_start

(***************************************************************************)
(* Properties of the cursor's entry stack                                  *)
(***************************************************************************)
\* The entries of the frames, bottom first.
FrameEntries(stack) == [k \in 1..Len(stack) |-> stack[k].entry]

\* C28: once walk has made the cursor, its stack is not empty, its bottom
\* frame is on entry 0 (index 1 here), the frame at position k (from 0) is on
\* a parsed entry of depth k, and the sibling moves leave the frames on the
\* entries they were on.
C28_StackOfParsedEntries ==
    pc = "cursor"
    => /\ entry_stack # <<>>
       /\ entry_stack[1].entry = 1
       /\ \A k \in 1..Len(entry_stack) :
             /\ snapshot.entries[entry_stack[k].entry].content.tag = "Parsed"
             /\ snapshot.entries[entry_stack[k].entry].depth = k - 1
       /\ moved.op \in {"goto_next_sibling", "goto_previous_sibling"}
          => FrameEntries(entry_stack) = FrameEntries(moved.from)

\* A sibling move has just succeeded inside an injected entry.
C28_Witness ==
    /\ pc = "cursor"
    /\ Len(entry_stack) >= 2
    /\ moved.op = "goto_next_sibling"
    /\ moved.ret

(***************************************************************************)
(* Properties of the descent into injected entries                         *)
(***************************************************************************)
\* The last move pushed a frame.
Pushed == Len(entry_stack) = Len(moved.from) + 1

\* C29: when goto_first_child_for_byte pushes the root cursor of an entry,
\* the local cursor could not move to a child for the byte, the entry is one
\* level deeper than the entry the cursor was in, it lies inside the span of
\* the node the cursor was on, and the byte lies within its byte range.
C29_EntersOnlyEntryHoldingByte ==
    (pc = "cursor" /\ moved.op = "goto_first_child_for_byte" /\ Pushed)
    => LET from == moved.from
           host == TopEntry(snapshot, from)
           child_entry == TopEntry(snapshot, entry_stack)
       IN  /\ ts_first_child_for_byte(host.content.tree, Top(from).node,
                                      moved.index - host.byte_offset) = 0
           /\ child_entry.depth = host.depth + 1
           /\ child_entry.byte_range.start >= node_range(snapshot, from).start
           /\ child_entry.byte_range.end <= node_range(snapshot, from).end
           /\ moved.index >= child_entry.byte_range.start
           /\ moved.index < child_entry.byte_range.end

(***************************************************************************)
(* Properties of the way back up                                           *)
(***************************************************************************)
\* The parent, inside its tree, of the node the stack's top frame is on.
LocalParent(stack) == TopEntry(snapshot, stack).content.tree[Top(stack).node].parent

\* C30: goto_parent moves the local cursor when the node has a parent in its
\* tree, and leaves the stack as long as it was; when the node has none and
\* the stack holds more than one frame it pops one frame, leaves the frames
\* below as they were and reports success; it reports failure and changes
\* nothing exactly when the cursor is on the root of entry 0; and after a
\* successful goto_first_child it brings the cursor back to the stack
\* goto_first_child was called on.
C30_ParentReturnsToHost ==
    /\ [](pc = "cursor" /\ moved.op = "goto_parent"
            => LET from == moved.from
               IN  /\ LocalParent(from) # 0
                      => moved.ret /\ entry_stack = MoveTop(from, LocalParent(from))
                   /\ LocalParent(from) = 0 /\ Len(from) > 1
                      => moved.ret /\ entry_stack = SubSeq(from, 1, Len(from) - 1)
                   /\ ~moved.ret <=> (Len(from) = 1 /\ LocalParent(from) = 0)
                   /\ ~moved.ret => entry_stack = from /\ Top(from) = Frame(1, 1))
    /\ [][CursorGotoParent /\ moved.op = "goto_first_child" /\ moved.ret
            => moved'.ret /\ entry_stack' = moved.from]_vars

\* goto_parent has popped one frame of a stack of at least three and left
\* the cursor on the host node, which has a parent in its own tree.
C30_Witness ==
    /\ pc = "cursor"
    /\ moved.op = "goto_parent"
    /\ moved.ret
    /\ Len(moved.from) = Len(entry_stack) + 1
    /\ Len(entry_stack) >= 2
    /\ LocalParent(entry_stack) # 0

(***************************************************************************)
(* Properties of the injections collected                                  *)
(***************************************************************************)
\* The injection query the last turn of the loop ran: that of the language
\* of the entry it pushed.
QueryOfTurn ==
    LanguageRegistry_language(registry, entries[Len(entries)].content.language)
        .language.injections_query

\* The pattern has the capture on its node.
HasCapture(pattern, capture_id) ==
    /\ capture_id.tag = "Some"
    /\ \E k \in 1..Len(pattern.captures) : pattern.captures[k] = capture_id.id

\* C31: every InjectionMatch collect_injections returns has at least one
\* included range and a language, and comes from a pattern that has the
\* content capture and either a set language or a language or mimetype
\* capture; every command made from an injection has at least one included
\* range, and the expect of from_injection never fails the build.
C31_InjectionsHaveRangesAndLanguage ==
    /\ pc # "panic"
    /\ \A k \in 1..Len(parse_queue) :
          parse_queue[k].depth > 0 => parse_queue[k].included_ranges # <<>>
    /\ (pc = "parse" /\ injections # None)
       => \A i \in 1..Len(injections.matches) :
             LET injection == injections.matches[i]
                 pattern == PatternsOf(QueryOfTurn)[injection.id + 1]
             IN  /\ injection.included_ranges # <<>>
                 /\ injection.language.tag \in {"LanguageName", "LanguageMimetype"}
                 /\ HasCapture(pattern, pattern.injection_content_capture_id)
                 /\ \/ pattern.language.tag = "Static"
                    \/ HasCapture(pattern, pattern.injection_language_capture_id)
                    \/ HasCapture(pattern, pattern.injection_mimetype_capture_id)

\* The root of a text with a word has been parsed under a query whose
\* pattern for words lacks the content capture or the language, and
\* nothing was returned for the word.
C31_Witness ==
    /\ pc = "parse"
    /\ Len(entries) = 1
    /\ injections # None
    /\ injections.matches = <<>>
    /\ QueryOfTurn.kind = "word"
    /\ \E n \in 1..Len(entries[1].content.tree) : entries[1].content.tree[n].kind = "word"

\* The matches the last turn's call of collect_injections kept, before
\* they were merged.
MatchedOfTurn ==
    LET entry == entries[Len(entries)]
    IN  MatchedInjections(QueryOfTurn, entry.content.tree, text, entry.byte_offset,
                          entry.point_offset, entry.byte_range)

\* The first and the last of the matches with an enclosing range.
FirstWith(matched, range) ==
    CHOOSE i \in 1..Len(matched) :
        /\ matched[i].enclosing_byte_range = range
        /\ \A j \in 1..(i - 1) : matched[j].enclosing_byte_range # range

LastWith(matched, range) ==
    CHOOSE i \in 1..Len(matched) :
        /\ matched[i].enclosing_byte_range = range
        /\ \A j \in (i + 1)..Len(matched) : matched[j].enclosing_byte_range # range

\* returned has one match for each distinct enclosing byte range of
\* matched, each the last of the matches with its range, in the order in
\* which the ranges were first met.
OnePerEnclosingRange(returned, matched) ==
    /\ Len(returned)
          = Cardinality({matched[i].enclosing_byte_range : i \in 1..Len(matched)})
    /\ \A j, k \in 1..Len(returned) :
          j < k => /\ returned[j].enclosing_byte_range # returned[k].enclosing_byte_range
                   /\ FirstWith(matched, returned[j].enclosing_byte_range)
                          < FirstWith(matched, returned[k].enclosing_byte_range)
    /\ \A j \in 1..Len(returned) :
          returned[j] = matched[LastWith(matched, returned[j].enclosing_byte_range)]

\* C32: collect_injections returns one InjectionMatch for each distinct
\* enclosing byte range of the matches: as many matches as there are
\* distinct ranges, each the last of the matches with its range, in the
\* order in which the ranges were first met.
C32_OneInjectionPerEnclosingRange ==
    (pc = "parse" /\ injections # None)
    => OnePerEnclosingRange(injections.matches, MatchedOfTurn)

\* Two nodes were matched by two patterns each, and two matches were
\* returned, each that of the second pattern.
C32_Witness ==
    /\ pc = "parse"
    /\ injections # None
    /\ Len(injections.matches) = 2
    /\ Len(MatchedOfTurn) = 4
    /\ \A j \in 1..2 : injections.matches[j].id = 1

(***************************************************************************)
(* Properties of the parsers pool                                          *)
(***************************************************************************)
\* The parsers the callers hold.
InUse == {callers[t].parser.id : t \in {u \in Callers : callers[u].parser # None}}

\* The parsers of the free list.
Free == {parsers_pool[i].id : i \in 1..Len(parsers_pool)}

\* C33: no parser is held by two callers, none is in the free list twice
\* or in the free list and held; no caller holds the mutex while its
\* function runs or its parser is reset; and when no call is under way and
\* every call made has returned, the free list holds every parser that was
\* created, each as reset left it.
C33_ParsersUsedExclusively ==
    /\ \A t, u \in Callers :
          (t # u /\ callers[t].parser # None /\ callers[u].parser # None)
              => callers[t].parser.id # callers[u].parser.id
    /\ \A i, j \in 1..Len(parsers_pool) : i # j => parsers_pool[i].id # parsers_pool[j].id
    /\ InUse \cap Free = {}
    /\ \A t \in Callers : callers[t].pc \in {"func", "reset"} => pool_lock # t
    /\ (\A t \in Callers : callers[t].pc = "idle")
          => /\ Free = 1..parsers_created
             /\ \A i \in 1..Len(parsers_pool) : parsers_pool[i].clean

\* Three calls ran at the same time on three parsers, every caller has
\* made all its calls, and the three parsers are back in the free list.
C33_Witness ==
    /\ \A t \in Callers : callers[t].pc = "idle" /\ callers[t].returned = MaxCalls
    /\ parsers_created = MaxCallers
    /\ Len(parsers_pool) = MaxCallers

(***************************************************************************)
(* Properties of the ranges collected                                      *)
(***************************************************************************)
\* The child of that kind of node i of the base tree.
ChildOfKind(i, kind) ==
    CHOOSE j \in Children(snapshot.entries[1].content.tree, i) :
        snapshot.entries[1].content.tree[j].kind = kind

\* What is to be collected for the block at node i of the base tree:
\* start, end and next byte.
RangeToCollect(i) ==
    LET tree == snapshot.entries[1].content.tree
        query == registry[1].indents_query
        inner == collected.use_inner \/ query.inner
        spans == IF query.main = "ends" THEN {ChildOfKind(i, "lt"), ChildOfKind(i, "gt")}
                 ELSE {i}
        first == CHOOSE n \in spans : \A m \in spans : tree[n].s <= tree[m].s
        last == CHOOSE n \in spans : \A m \in spans : tree[n].e >= tree[m].e
        ending == IF query.with_end THEN ChildOfKind(i, "gt") ELSE last
        following == {j \in (ending + 1)..Len(tree) : tree[j].parent = tree[ending].parent}
    IN  [start_byte |-> IF ~query.with_start THEN tree[first].s
                        ELSE IF inner THEN tree[ChildOfKind(i, "lt")].e
                        ELSE tree[ChildOfKind(i, "lt")].s,
         end_byte |-> IF ~query.with_end THEN tree[last].e
                      ELSE IF inner THEN tree[ChildOfKind(i, "gt")].s
                      ELSE tree[ChildOfKind(i, "gt")].e,
         next_byte |-> IF query.with_end /\ inner THEN tree[ChildOfKind(i, "gt")].s
                       ELSE IF following = {} \/ tree[ending].parent = 0 THEN tree[ending].e
                       ELSE tree[CHOOSE j \in following : \A m \in following : j <= m].s]

\* C34: each range collected for a pattern on a block starts at the least
\* start and ends at the greatest end of the main capture's nodes, unless
\* a start capture gives the start (its start, in inner mode its end) or
\* an end capture the end (its end, in inner mode its start); inner mode
\* is the caller's flag or the pattern's range.inner; and the next byte is
\* the start of the node that follows the node the range ends with (that
\* node's end when none follows) or, in inner mode, the start of the end
\* capture.
C34_RangeOfMatch ==
    collected # None =>
        \A k \in 1..Len(collected.ranges) :
            collected.ranges[k].language_id = 0 =>
                \E i \in 1..Len(snapshot.entries[1].content.tree) :
                    /\ snapshot.entries[1].content.tree[i].kind = "block"
                    /\ collected.ranges[k].range.start_byte = RangeToCollect(i).start_byte
                    /\ collected.ranges[k].range.end_byte = RangeToCollect(i).end_byte
                    /\ collected.ranges[k].next_byte = RangeToCollect(i).next_byte

\* A block followed by another node is collected with a start and an end
\* capture, inner mode coming from the pattern alone.
C34_Witness ==
    /\ collected # None
    /\ ~collected.use_inner
    /\ registry[1].indents_query.inner
    /\ registry[1].indents_query.with_start
    /\ registry[1].indents_query.with_end
    /\ \E k \in 1..Len(collected.ranges) :
          /\ collected.ranges[k].language_id = 0
          /\ collected.ranges[k].next_byte < collected.ranges[k].range.end_byte + 2
          /\ collected.ranges[k].range.start_byte < collected.ranges[k].range.end_byte

(***************************************************************************)
(* Properties of the captures that are not visible                         *)
(***************************************************************************)
\* The name of the capture in the highlights query of the language.
CaptureName(language_id, capture_id) ==
    LanguageRegistry_language(registry, language_id).language.highlights_query
        .capture_names[capture_id + 1]

Hidden(language_id, capture_id) == CaptureName(language_id, capture_id)[1] = "_"

\* C35: no token carries a capture whose name starts with '_', no such
\* capture is recorded for a range, and a range on which the query
\* produced a capture with another name has a capture recorded.
C35_HiddenCapturesNotShown ==
    pc \in {"emit", "returned"} =>
        /\ \A i \in 1..Len(highlight_tokens) :
              highlight_tokens[i].capture_id # NoneId
                  => ~Hidden(highlight_tokens[i].language_id, highlight_tokens[i].capture_id)
        /\ \A h \in highlights : ~Hidden(h.language, h.capture_id)
        /\ \A c \in ProducedCaptures :
              ~Hidden(c.language, c.capture_id) => \E h \in highlights : h.range = c.range

\* A node has a capture of either sort, whichever pattern comes first, and
\* its token was emitted with the one that is visible.
C35_Witness ==
    /\ pc = "returned"
    /\ \E c, d \in ProducedCaptures :
          /\ c.range = d.range
          /\ c.language = d.language
          /\ Hidden(c.language, c.capture_id)
          /\ ~Hidden(d.language, d.capture_id)
          /\ c.pattern_index > d.pattern_index
          /\ \E i \in 1..Len(highlight_tokens) :
                /\ highlight_tokens[i].capture_id = d.capture_id
                /\ highlight_tokens[i].from = d.range.start

(***************************************************************************)
(* Properties of AdditionalPredicates::parse                               *)
(***************************************************************************)
\* A predicate of the contains? family.
OfFamily(p) ==
    p.operator \in {"contains?", "not-contains?", "any-contains?", "any-not-contains?"}

\* A predicate of the family whose arguments are not a capture and a
\* literal.
Malformed(p) ==
    /\ OfFamily(p)
    /\ IF Len(p.args) # 2 THEN TRUE
       ELSE p.args[1].tag = "String" \/ p.args[2].tag = "Capture"

\* The predicates of the family of the k-th pattern of the source.
FamilyOf(k) == SelectSeq(predicates_source.patterns[k].predicates, OfFamily)

\* The row the k-th pattern of the source starts on: each pattern before
\* it takes the line ends before it and one line for each predicate.
RECURSIVE RowOfPattern(_)
RowOfPattern(k) ==
    predicates_source.patterns[k].before
        + (IF k = 1 THEN 0
           ELSE RowOfPattern(k - 1) + Len(predicates_source.patterns[k - 1].predicates))

\* The patterns with a malformed predicate.
Offending ==
    {k \in 1..Len(predicates_source.patterns) :
        \E j \in 1..Len(predicates_source.patterns[k].predicates) :
            Malformed(predicates_source.patterns[k].predicates[j])}

\* C36: parse compiles the predicates of the contains? family, pattern by
\* pattern, and passes over the others whatever their arguments; when a
\* predicate of the family has not two arguments, a literal first or a
\* capture second, parse returns an error with the row the first such
\* pattern starts on, and no predicates.
C36_OnlyContainsFamilyParsed ==
    pc = "predicates_parsed" =>
        IF Offending = {}
        THEN /\ additional_predicates.tag = "Ok"
             /\ Len(additional_predicates.predicates) = Len(predicates_source.patterns)
             /\ \A k \in 1..Len(predicates_source.patterns) :
                   /\ Len(additional_predicates.predicates[k]) = Len(FamilyOf(k))
                   /\ \A j \in 1..Len(FamilyOf(k)) :
                         /\ additional_predicates.predicates[k][j].pattern
                                = FamilyOf(k)[j].args[2].value
                         /\ additional_predicates.predicates[k][j].capture_id
                                = FamilyOf(k)[j].args[1].id
        ELSE /\ additional_predicates.tag = "Err"
             /\ "predicates" \notin DOMAIN additional_predicates
             /\ additional_predicates.row
                    = RowOfPattern(CHOOSE k \in Offending : \A m \in Offending : k <= m)

\* The first pattern has a predicate of another operator with one
\* argument, the second starts on row 2 and has a predicate of the family
\* with one argument: the error carries row 2.
C36_Witness ==
    /\ pc = "predicates_parsed"
    /\ additional_predicates.tag = "Err"
    /\ additional_predicates.row = 2
    /\ Len(predicates_source.patterns) = 2
    /\ predicates_source.patterns[1].predicates
           = <<QueryPredicate("offset!", <<ArgCapture(0)>>)>>
    /\ predicates_source.patterns[2].predicates
           = <<QueryPredicate("contains?", <<ArgCapture(0)>>)>>

(***************************************************************************)
(* Properties of the position of the emit loop                             *)
(***************************************************************************)
\* C37: at the start of every turn of the emit loop the position is not
\* left of the cursor's node: the debug_assert! at the head of the loop
\* body.
C37_PositionNotLeftOfNode ==
    (pc = "emit" /\ byte_current < request.end * 2)
        => byte_current >= node_range(snapshot, entry_stack).start

(***************************************************************************)
(* Properties of the merge of fold results of several languages            *)
(***************************************************************************)
\* The turn merged its result into the i-th combined range.
MergedInto(i) ==
    /\ Len(combined_ranges') = Len(combined_ranges)
    /\ combined_ranges'[i] # combined_ranges[i]

\* C38: a result is merged only into a combined range that an earlier
\* result of its own language and pattern began.
C38_MergedWithinLanguage ==
    [][CombineLoop =>
          \A i \in 1..Len(combined_ranges) :
              MergedInto(i) =>
                  \E j \in 1..range_index :
                      /\ ranges[j].language_id = ranges[range_index + 1].language_id
                      /\ ranges[j].pattern_id = ranges[range_index + 1].pattern_id
                      /\ ranges[j].range.start_byte = combined_ranges[i].range.start_byte]_vars

(***************************************************************************)
(* Properties of the injections named by a mimetype                        *)
(***************************************************************************)
\* The last of the captures of the pattern that name a language is the
\* mimetype capture, and the pattern sets no language.
NamedByMimetype(query) ==
    /\ query.language.tag = "NotSpecified"
    /\ \E k \in 1..Len(query.captures) :
          /\ SomeId(query.captures[k]) = query.injection_mimetype_capture_id
          /\ \A m \in (k + 1)..Len(query.captures) :
                SomeId(query.captures[m]) # query.injection_language_capture_id

\* The words of the root entry's tree.
RootWords == {n \in 1..Len(entries[1].content.tree) : entries[1].content.tree[n].kind = "word"}

\* C39: no mimetype is found in the catalog, whatever the names of its
\* languages; the command made from an injection named by a mimetype has
\* an unknown language; and when the build is over the region of each such
\* injection is an Unparsed entry that holds the mimetype, with no entry
\* below it.
C39_MimetypeNeverResolved ==
    /\ \A l \in 1..Len(registry) :
          with_unknown_language(registry, LanguageMimetype(registry[l].name)) = None
    /\ (pc = "parse" /\ injections # None)
       => \A i \in 1..Len(injections.matches) :
             injections.matches[i].language.tag = "LanguageMimetype"
                 => \E k \in 1..Len(parse_queue) :
                       /\ parse_queue[k].byte_range
                              = injections.matches[i].enclosing_byte_range
                       /\ parse_queue[k].language
                              = Unknown(injections.matches[i].language)
    /\ (pc = "done" /\ NamedByMimetype(registry[1].injections_query))
       => \A n \in RootWords :
             LET node == entries[1].content.tree[n]
             IN  /\ \E i \in 2..Len(entries) :
                       /\ entries[i].depth = 1
                       /\ entries[i].byte_range = ByteRange(node.s, node.e)
                       /\ entries[i].content.tag = "Unparsed"
                       /\ entries[i].content.hint
                              = LanguageMimetype(from_utf16_lossy(
                                    SubText(text, node.s \div 2, node.e \div 2)))
                 /\ \A j \in 2..Len(entries) :
                       (/\ entries[j].byte_range.start >= node.s
                        /\ entries[j].byte_range.end <= node.e)
                           => entries[j].depth = 1 /\ entries[j].content.tag = "Unparsed"

\* The document holds the word "a", the name of a registered language; the
\* pattern names the language by mimetype, and the word's region is
\* Unparsed.
C39_Witness ==
    /\ pc = "done"
    /\ NamedByMimetype(registry[1].injections_query)
    /\ \E i \in 2..Len(entries) :
          /\ entries[i].content.tag = "Unparsed"
          /\ entries[i].content.hint = LanguageMimetype("a")
          /\ LanguageRegistry_language_by_name(registry, "a").tag = "Some"

====
